---- MODULE Spec2Model ----
(***************************************************************************)
(* Model of the page scanner of iyashkun/Fetch: the request handler of     *)
(* revision v4 (src/api/fetch.js, second module.exports, lines 253-645)    *)
(* and of revision v5 (src/unnamed/part_000).                             *)
(*                                                                         *)
(* Texts (URLs, endpoints, <<"h","t","t","p">> verbs) are sequences of one-character      *)
(* strings, so that startsWith, includes, toUpperCase and URL resolution   *)
(* are computed.  Scores are in hundredths (0.7 is 70).  A script is a     *)
(* sequence of tokens; a call-site signature matches one token and yields  *)
(* the match array (whole text, capture groups) its regular expression     *)
(* yields on that call site.                                               *)
(***************************************************************************)
EXTENDS Integers, Sequences, FiniteSets, TLC

\* ------------------------------------------------------------------ texts

Min(a, b) == IF a < b THEN a ELSE b

Range(s) == { s[i] : i \in 1..Len(s) }

LowerAlphabet == <<"a","b","c","d","e","f","g","h","i","j","k","l","m","n","o","p","q","r","s","t","u","v","w","x","y","z">>

UpperAlphabet == <<"A","B","C","D","E","F","G","H","I","J","K","L","M","N","O","P","Q","R","S","T","U","V","W","X","Y","Z">>

Digits == <<"0","1","2","3","4","5","6","7","8","9">>

\* String.prototype.toUpperCase / toLowerCase
ToUpperCase(s) ==
    [i \in 1..Len(s) |->
        IF \E k \in 1..Len(LowerAlphabet) : LowerAlphabet[k] = s[i]
        THEN UpperAlphabet[CHOOSE k \in 1..Len(LowerAlphabet) : LowerAlphabet[k] = s[i]]
        ELSE s[i]]

ToLowerCase(s) ==
    [i \in 1..Len(s) |->
        IF \E k \in 1..Len(UpperAlphabet) : UpperAlphabet[k] = s[i]
        THEN LowerAlphabet[CHOOSE k \in 1..Len(UpperAlphabet) : UpperAlphabet[k] = s[i]]
        ELSE s[i]]

\* String.prototype.startsWith / endsWith / includes / indexOf (1-based, 0: none)
StartsWith(s, p) == Len(p) <= Len(s) /\ SubSeq(s, 1, Len(p)) = p

EndsWith(s, p) == Len(p) <= Len(s) /\ SubSeq(s, Len(s) - Len(p) + 1, Len(s)) = p

Includes(s, p) == \E i \in 1..(Len(s) - Len(p) + 1) : SubSeq(s, i, i + Len(p) - 1) = p

IndexFrom(s, p, from) ==
    LET hits == { i \in from..(Len(s) - Len(p) + 1) : SubSeq(s, i, i + Len(p) - 1) = p }
    IN  IF hits = {} THEN 0 ELSE CHOOSE i \in hits : \A j \in hits : i <= j

\* The decimal text of a natural number.
RECURSIVE DecimalText(_)
DecimalText(n) ==
    IF n < 10 THEN <<Digits[n + 1]>>
    ELSE Append(DecimalText(n \div 10), Digits[(n % 10) + 1])

\* ------------------------------------------------------------------- URLs
\* new URL(ref, base).href, restricted to hierarchical URLs
\* scheme "://" host path: no query, fragment, port, dot segment, percent
\* encoding or the special-scheme leniency of the URL standard.  A text
\* with a scheme and no valid host is the TypeError, Invalid.

Invalid == <<>>

IsLetter(c) == c \in Range(LowerAlphabet) \cup Range(UpperAlphabet)

\* Position of the ":" ending a scheme, 0 when the text starts with no scheme.
SchemeEnd(s) ==
    LET i == IndexFrom(s, <<":">>, 1)
    IN  IF i > 1 /\ IsLetter(s[1]) /\ \A j \in 1..(i - 1) :
                 IsLetter(s[j]) \/ s[j] \in Range(Digits) \cup {"+", "-", "."}
        THEN i ELSE 0

\* The href of scheme "://" host path, Invalid when the host is empty or
\* holds a character no host holds.
HrefOf(scheme, host, path) ==
    IF \/ host = <<>>
       \/ \E j \in 1..Len(host) : ~(IsLetter(host[j]) \/ host[j] \in Range(Digits) \cup {"-", "."})
    THEN Invalid
    ELSE ToLowerCase(scheme) \o <<"/", "/">> \o ToLowerCase(host) \o path

\* rest: the text after "scheme://"; slash: where its path starts, 0 for none.
SplitAuthority(scheme, rest, slash) ==
    IF slash = 0 THEN HrefOf(scheme, rest, <<"/">>)
    ELSE HrefOf(scheme, SubSeq(rest, 1, slash - 1), SubSeq(rest, slash, Len(rest)))

\* e: the position of the ":" that ends the scheme of s, 0 for none.
ParseWithScheme(s, e) ==
    IF e = 0 \/ ~StartsWith(SubSeq(s, e + 1, Len(s)), <<"/", "/">>) THEN Invalid
    ELSE SplitAuthority(SubSeq(s, 1, e), SubSeq(s, e + 3, Len(s)),
                        IndexFrom(SubSeq(s, e + 3, Len(s)), <<"/">>, 1))

\* new URL(s).href for a text with a scheme.
ParseAbsolute(s) == ParseWithScheme(s, SchemeEnd(s))

\* scheme://host of a valid absolute URL, and the URL up to its last "/".
OriginOf(u) ==
    LET slash == IndexFrom(u, <<"/">>, SchemeEnd(u) + 3)
    IN  IF slash = 0 THEN u ELSE SubSeq(u, 1, slash - 1)

DirectoryOf(u) ==
    LET cuts == { i \in 1..Len(u) : u[i] = "/" }
    IN  SubSeq(u, 1, CHOOSE i \in cuts : \A j \in cuts : j <= i)

\* new URL(ref, base).href; base is a valid absolute URL.
ResolveUrl(ref, base) ==
    IF SchemeEnd(ref) > 0 THEN ParseAbsolute(ref)
    ELSE IF StartsWith(ref, <<"/", "/">>)
         THEN ParseAbsolute(SubSeq(base, 1, SchemeEnd(base)) \o ref)
    ELSE IF StartsWith(ref, <<"/">>) THEN OriginOf(base) \o ref
    ELSE DirectoryOf(base) \o ref

\* new URL(u) succeeds: u is a parseable absolute URL.
IsAbsoluteUrl(u) == ParseAbsolute(u) # Invalid

\* ------------------------------------------------------- ranking helpers

\* Array.prototype.slice(0, n)
Slice(s, n) == SubSeq(s, 1, Min(n, Len(s)))

\* The elements of s at the positions in keep, in their order.
KeepAt(s, keep) ==
    LET kept == SelectSeq([i \in 1..Len(s) |-> [at |-> i, item |-> s[i]]],
                          LAMBDA t : t.at \in keep)
    IN  [i \in 1..Len(kept) |-> kept[i].item]

RECURSIVE SortByScoreOver(_, _)
\* The elements of s whose score is in scores, the highest score first and
\* the elements of one score in the order they have in s.
SortByScoreOver(s, scores) ==
    IF scores = {} THEN <<>>
    ELSE SelectSeq(s, LAMBDA x : x.score \in scores /\ \A w \in scores : w <= x.score)
           \o SortByScoreOver(s, { w \in scores : \E v \in scores : v > w })

\* sort((a, b) => (b.score || 0) - (a.score || 0)): descending and stable.
SortByScore(s) == SortByScoreOver(s, { s[i].score : i \in 1..Len(s) })

\* ----------------------------------------------------- content extractor
\* extractPosts: five detectors fill the Map results, keyed by resolved URL.
\* The Map is a sequence of entries in insertion order, one per key.

MapHas(results, key) == \E i \in 1..Len(results) : results[i].href = key

\* Map.prototype.set: an existing key keeps its place and takes the new value.
MapSet(results, entry) ==
    IF MapHas(results, entry.href)
    THEN [i \in 1..Len(results) |->
            IF results[i].href = entry.href THEN entry ELSE results[i]]
    ELSE Append(results, entry)

\* entries.forEach(entry => { if (!results.has(key)) results.set(key, entry) }):
\* after results, the first entry of every key results does not hold.
MapSetEachIfAbsent(results, entries) ==
    results \o KeepAt(entries,
                      { i \in 1..Len(entries) :
                          /\ ~MapHas(results, entries[i].href)
                          /\ \A j \in 1..(i - 1) : entries[j].href # entries[i].href })

OrElse(a, b) == IF a # <<>> THEN a ELSE b

FeedScore == 80

ArticleScore == 90

JsonLdScore == 100

OpenGraphScore == 70

HeuristicScore == 60

PostsCap == 200

RECURSIVE DetectFeed(_, _, _, _)
\* RSS/Atom: every feed <link> with an href that resolves is set.
DetectFeed(results, links, i, baseUrl) ==
    IF i > Len(links) THEN results
    ELSE DetectFeed(IF links[i].href # <<>> /\ ResolveUrl(links[i].href, baseUrl) # Invalid
                    THEN MapSet(results, [title |-> OrElse(links[i].title, <<"R","S","S","/","A","t","o","m"," ","f","e","e","d">>),
                                          href |-> ResolveUrl(links[i].href, baseUrl),
                                          source |-> "rss", score |-> FeedScore])
                    ELSE results,
                    links, i + 1, baseUrl)

\* The text of an anchor, trimmed, or its title attribute.
AnchorTitle(a) == OrElse(a.text, a.title)

IsArticleAnchor(a, baseUrl) ==
    /\ a.inArticle
    /\ a.href # <<>>
    /\ Len(AnchorTitle(a)) > 5
    /\ ResolveUrl(a.href, baseUrl) # Invalid

\* article a[href]: a title longer than 5, set when the URL is not yet a key.
DetectArticle(results, anchors, baseUrl) ==
    LET found == SelectSeq(anchors, LAMBDA a : IsArticleAnchor(a, baseUrl))
    IN  MapSetEachIfAbsent(results, [k \in 1..Len(found) |-> [title |-> AnchorTitle(found[k]), href |-> ResolveUrl(found[k].href, baseUrl),
                  source |-> "article", score |-> ArticleScore]])

\* /(Article|BlogPosting|NewsArticle)/i.test(type)
IsArticleType(type) ==
    \/ Includes(ToLowerCase(type), <<"a","r","t","i","c","l","e">>)
    \/ Includes(ToLowerCase(type), <<"b","l","o","g","p","o","s","t","i","n","g">>)
    \/ Includes(ToLowerCase(type), <<"n","e","w","s","a","r","t","i","c","l","e">>)

\* One object of a JSON-LD block: set when it has an article-like type, a URL
\* that resolves and a title.
DetectJsonLdItem(results, obj, urlProp, title, baseUrl) ==
    IF obj.type # <<>> /\ IsArticleType(obj.type) /\ urlProp # <<>> /\ title # <<>>
       /\ ResolveUrl(urlProp, baseUrl) # Invalid
    THEN MapSet(results, [title |-> title, href |-> ResolveUrl(urlProp, baseUrl),
                           source |-> "json-ld", score |-> JsonLdScore])
    ELSE results

RECURSIVE DetectJsonLdItems(_, _, _, _)
\* items.forEach(obj => ..)
DetectJsonLdItems(results, items, i, baseUrl) ==
    IF i > Len(items) THEN results
    ELSE DetectJsonLdItems(DetectJsonLdItem(results, items[i],
                                            OrElse(items[i].url, items[i].mainEntityOfPage),
                                            OrElse(items[i].headline, items[i].name), baseUrl),
                           items, i + 1, baseUrl)

RECURSIVE DetectJsonLd(_, _, _, _)
\* script[type="application/ld+json"]: an empty block is skipped, a block
\* JSON.parse rejects is caught and skipped.
DetectJsonLd(results, blocks, i, baseUrl) ==
    IF i > Len(blocks) THEN results
    ELSE DetectJsonLd(IF blocks[i].text = "json"
                      THEN DetectJsonLdItems(results, blocks[i].items, 1, baseUrl)
                      ELSE results,
                      blocks, i + 1, baseUrl)

\* An OpenGraph detector that registers its entry with the score of the
\* heuristic detector.
DetectOpenGraphAsHeuristic(results, ogUrl, ogTitle, baseUrl) ==
    IF ogUrl # <<>> /\ ogTitle # <<>> /\ ResolveUrl(ogUrl, baseUrl) # Invalid
    THEN MapSet(results, [title |-> ogTitle, href |-> ResolveUrl(ogUrl, baseUrl),
                           source |-> "opengraph", score |-> HeuristicScore])
    ELSE results

\* OpenGraph: og:url with og:title is set.
DetectOpenGraph(results, ogUrl, ogTitle, baseUrl) ==
    IF ogUrl # <<>> /\ ogTitle # <<>> /\ ResolveUrl(ogUrl, baseUrl) # Invalid
    THEN MapSet(results, [title |-> ogTitle, href |-> ResolveUrl(ogUrl, baseUrl),
                           source |-> "opengraph", score |-> OpenGraphScore])
    ELSE results

\* /\/(post|posts|article|articles|blog|news|story)\b/.test(lc)
HasPathKeyword(lc) ==
    \E kw \in
    { <<"/","p","o","s","t">>, <<"/","p","o","s","t","s">>,
      <<"/","a","r","t","i","c","l","e">>, <<"/","a","r","t","i","c","l","e","s">>,
      <<"/","b","l","o","g">>, <<"/","n","e","w","s">>, <<"/","s","t","o","r","y">> } :
      \E i \in 1..(Len(lc) - Len(kw) + 1) :
        /\ SubSeq(lc, i, i + Len(kw) - 1) = kw
        /\ \/ i + Len(kw) > Len(lc)
           \/ ~(IsLetter(lc[i + Len(kw)]) \/ lc[i + Len(kw)] \in Range(Digits) \cup {"_"})

\* text.length > 10 && text.match(/^(read|view|learn)/i)
IsHeuristicMatch(a) ==
    \/ HasPathKeyword(ToLowerCase(a.href))
    \/ a.inContainer
    \/ /\ Len(a.text) > 10
       /\ \/ StartsWith(ToLowerCase(a.text), <<"r","e","a","d">>)
          \/ StartsWith(ToLowerCase(a.text), <<"v","i","e","w">>)
          \/ StartsWith(ToLowerCase(a.text), <<"l","e","a","r","n">>)

\* a[href]: new URL(href, baseUrl) is outside any try, so an href that does
\* not resolve ends the detector with the TypeError (threw); otherwise every
\* anchor that matches is set when its URL is not yet a key.
DetectHeuristic(results, anchors, baseUrl) ==
    IF \E i \in 1..Len(anchors) :
          anchors[i].href # <<>> /\ ResolveUrl(anchors[i].href, baseUrl) = Invalid
    THEN [threw |-> TRUE, results |-> results]
    ELSE LET found == SelectSeq(anchors, LAMBDA a : a.href # <<>> /\ IsHeuristicMatch(a))
         IN  [threw |-> FALSE,
              results |-> MapSetEachIfAbsent(
                              results,
                              [k \in 1..Len(found) |->
                                  [title |-> OrElse(found[k].text, <<"H","e","u","r","i","s","t","i","c"," ","L","i","n","k">>),
                                   href |-> ResolveUrl(found[k].href, baseUrl),
                                   source |-> "heuristic", score |-> HeuristicScore]])]

\* Array.from(results.values()).sort(...).slice(0, 200)
RankPosts(results) == Slice(SortByScore(results), PostsCap)

\* extractPosts(html, baseUrl), from new Map() to the return: the five
\* detectors in their order, then the ranking; pages whose heuristic
\* detector throws have no return value.
extractPosts(p, baseUrl) ==
    RankPosts(DetectHeuristic(
                  DetectOpenGraph(
                      DetectJsonLd(
                          DetectArticle(DetectFeed(<<>>, p.feedLinks, 1, baseUrl), p.anchors, baseUrl),
                          p.jsonld, 1, baseUrl),
                      p.ogUrl, p.ogTitle, baseUrl),
                  p.anchors, baseUrl).results)

\* ------------------------------------------------------ call-site scanner
\* A script is a sequence of tokens [kind, url, verb, text, layout]: text is
\* the source text of the token, url and verb the literals of a call site.
\* kind: "axios.post" axios.post("url"          "axios.get" axios.get("url"
\*       "$.post"     $.post("url"              "$.get"     $.get("url"
\*       "fetch"      fetch("url" [.. method: "verb"]
\*       "open"       open("verb", "url"        "send"      send() | send(null)
\*       "graphql"    /graphql "url"            "gqlop"     query {..} | mutation {..}
\*       "ws"         ws://.. | wss://..        "text"      anything else

Token(kind, url, verb, text) ==
    [kind |-> kind, url |-> url, verb |-> verb, text |-> text, layout |-> "raw"]

\* A context that is a literal of the program: one token of plain text.
Literal(text) == <<Token("text", <<>>, <<>>, text)>>

GET == <<"G","E","T">>

POST == <<"P","O","S","T">>

OPTIONS == <<"O","P","T","I","O","N","S">>

WS == <<"W","S">>

DOLLAR1 == <<"$","1">>

\* The letters a text starts with: the (query|mutation) and (ws|wss) groups.
LeadingLetters(text) ==
    LET ends == { n \in 0..Len(text) : \A j \in 1..n : IsLetter(text[j]) }
    IN  SubSeq(text, 1, CHOOSE n \in ends : \A k \in ends : k <= n)

NoMatch == <<>>

\* The array regex.exec yields when the signature's expression matches at the
\* token: <<match[0], match[1], match[2]>>, NoMatch (null) when it does not.
\* The fetch-with-method expression captures the URL first and the verb
\* second; the open expression captures the verb first and the URL second.
MatchArray(id, tok) ==
    CASE id \in {"axios.post", "axios.get", "$.post", "$.get", "graphql"} ->
            IF tok.kind = id THEN <<tok.text, tok.url>> ELSE NoMatch
      [] id = "fetch+method" ->
            IF tok.kind = "fetch" /\ tok.verb # <<>>
            THEN <<tok.text, tok.url, tok.verb>> ELSE NoMatch
      [] id = "fetch" ->
            IF tok.kind = "fetch" THEN <<tok.text, tok.url>> ELSE NoMatch
      [] id = "open" ->
            IF tok.kind = "open" THEN <<tok.text, tok.verb, tok.url>> ELSE NoMatch
      [] id = "send" ->
            IF tok.kind = "send" THEN <<tok.text>> ELSE NoMatch
      [] id \in {"gqlop", "ws"} ->
            IF tok.kind = id THEN <<tok.text, LeadingLetters(tok.text)>> ELSE NoMatch

\* match[g]; a group that is not there is undefined (the empty text).
Group(match, g) == IF g + 1 <= Len(match) THEN match[g + 1] ELSE <<>>

\* regex.exec(code) with the flag g: the position of the first token at or
\* after lastIndex the signature matches, 0 (null) when there is none.
Exec(id, code, lastIndex) ==
    LET hits == { i \in lastIndex..Len(code) : MatchArray(id, code[i]) # NoMatch }
    IN  IF hits = {} THEN 0 ELSE CHOOSE i \in hits : \A j \in hits : i <= j

\* let endpoint = match[group] || match[0]
EndpointOf(sig, match) == OrElse(Group(match, sig.group), match[1])

\* let meth = method; if (method === '$1') meth = (match[1] || 'GET').toUpperCase()
MethodOf(sig, match) ==
    IF sig.method = DOLLAR1 THEN ToUpperCase(OrElse(Group(match, 1), GET)) ELSE sig.method

\* if (!endpoint.startsWith('http')) endpoint = new URL(endpoint, baseUrl).href
ResolveEndpoint(endpoint, baseUrl) ==
    IF ~StartsWith(endpoint, <<"h","t","t","p">>) THEN ResolveUrl(endpoint, baseUrl) ELSE endpoint

\* code.substring(Math.max(0, match.index - 50), match.index + 150).trim():
\* a token stands for up to 50 characters, so the window is the token
\* before the match and the three from it on.
ContextBefore == 1

ContextAfter == 3

Context(code, index) ==
    SubSeq(code, IF index - ContextBefore < 1 THEN 1 ELSE index - ContextBefore,
           Min(Len(code), index + ContextAfter - 1))

\* beautify(code, { indent_size: 2 }): the same tokens, laid out again.
Beautify(code) == [i \in 1..Len(code) |-> [code[i] EXCEPT !.layout = "pretty"]]

\* code.trim() is not empty
IsNonBlank(code) == code # <<>>

RECURSIVE TextLength(_)
\* code.trim().length: the characters of the tokens and one blank between
\* two of them.
TextLength(code) ==
    IF code = <<>> THEN 0
    ELSE IF Len(code) = 1 THEN Len(code[1].text)
    ELSE Len(code[1].text) + 1 + TextLength(Tail(code))

\* Set.prototype.add on the Set of JSON texts: insertion order, no duplicate.
SetAdd(results, item) ==
    IF \E i \in 1..Len(results) : results[i] = item THEN results ELSE Append(results, item)

\* items.forEach(item => results.add(item)): after results, the first
\* occurrence of every item results does not hold.
SetAddAll(results, items) ==
    results \o KeepAt(items,
                      { i \in 1..Len(items) :
                          /\ \A k \in 1..Len(results) : results[k] # items[i]
                          /\ \A j \in 1..(i - 1) : items[j] # items[i] })

\* ---------------------------------------- v4: extractNetworkCalls (fetch.js)

NetworkCap == 150

DynamicCap == 50

MaxScripts == 10

Concurrency == 3

BasePatterns ==
    << [id |-> "axios.post", group |-> 1, method |-> POST,
        modeMatch |-> {"post", "all-endpoints", "hidden", "graphql"}],
       [id |-> "axios.get", group |-> 1, method |-> GET, modeMatch |-> {"all-endpoints"}],
       [id |-> "$.post", group |-> 1, method |-> POST,
        modeMatch |-> {"post", "all-endpoints", "hidden"}],
       [id |-> "$.get", group |-> 1, method |-> GET, modeMatch |-> {"all-endpoints"}],
       [id |-> "fetch+method", group |-> 1, method |-> DOLLAR1,
        modeMatch |-> {"fetch", "post", "all-endpoints", "hidden", "graphql"}],
       [id |-> "fetch", group |-> 1, method |-> GET, modeMatch |-> {"fetch", "all-endpoints"}],
       [id |-> "open", group |-> 2, method |-> DOLLAR1,
        modeMatch |-> {"xhr", "all-endpoints", "hidden"}],
       [id |-> "send", group |-> 0, method |-> POST, modeMatch |-> {"xhr", "post"}] >>

GraphqlPatterns ==
    << [id |-> "graphql", group |-> 1, method |-> POST, modeMatch |-> {"graphql"}],
       [id |-> "gqlop", group |-> 0, method |-> <<"G","R","A","P","H","Q","L">>, modeMatch |-> {"graphql"}] >>

WsPatterns == << [id |-> "ws", group |-> 0, method |-> WS, modeMatch |-> {"ws"}] >>

\* getPatternsForMode(m)
getPatternsForMode(m) ==
    SelectSeq(BasePatterns
                \o (IF m = "graphql" THEN GraphqlPatterns ELSE <<>>)
                \o (IF m = "ws" THEN WsPatterns ELSE <<>>),
              LAMBDA p : m \in p.modeMatch)

\* score: 0.7 + (endpoint.includes('/api/') || endpoint.includes('/v') ? 0.3 : 0)
StaticScore(endpoint) ==
    70 + (IF Includes(endpoint, <<"/","a","p","i","/">>) \/ Includes(endpoint, <<"/","v">>)
          THEN 30 ELSE 0)

\* score: 0.8 + (endpoint.includes('/internal') ? 0.2 : 0)
HiddenScore(endpoint) ==
    80 + (IF Includes(endpoint, <<"/","i","n","t","e","r","n","a","l">>) THEN 20 ELSE 0)

\* try { .. new URL(endpoint, baseUrl) .. callsSet.add(..) } catch (e) {}
\* The item of one match: JSON.stringify({ url, method, context, score }).
AddCallV4(results, sig, match, context, baseUrl, hidden) ==
    IF ResolveEndpoint(EndpointOf(sig, match), baseUrl) = Invalid THEN results
    ELSE SetAdd(results,
                [url |-> ResolveEndpoint(EndpointOf(sig, match), baseUrl),
                 method |-> MethodOf(sig, match),
                 context |-> context,
                 score |-> IF hidden
                           THEN HiddenScore(ResolveEndpoint(EndpointOf(sig, match), baseUrl))
                           ELSE StaticScore(ResolveEndpoint(EndpointOf(sig, match), baseUrl))])

RECURSIVE ScanCodeV4(_, _, _, _, _, _)
\* while ((match = regex.exec(code)) !== null) { .. regex.lastIndex = match.index + 1 }
\* index: the position of the match, 0 when there is none.
\* hidden: the pass over the beautified code (its score differs).
ScanCodeV4(results, sig, code, index, baseUrl, hidden) ==
    IF index = 0 THEN results
    ELSE ScanCodeV4(AddCallV4(results, sig, MatchArray(sig.id, code[index]),
                              Context(code, index), baseUrl, hidden),
                    sig, code, Exec(sig.id, code, index + 1), baseUrl, hidden)

RECURSIVE ScanCodesV4(_, _, _, _, _, _)
\* jsCodes.forEach(code => ..) for one signature
ScanCodesV4(results, sig, jsCodes, c, baseUrl, hidden) ==
    IF c > Len(jsCodes) THEN results
    ELSE ScanCodesV4(ScanCodeV4(results, sig, jsCodes[c], Exec(sig.id, jsCodes[c], 1),
                                baseUrl, hidden),
                     sig, jsCodes, c + 1, baseUrl, hidden)

RECURSIVE ApplyPatterns(_, _, _, _, _, _)
\* patterns.forEach(({ regexStr, flags, group, method }) => jsCodes.forEach(..))
ApplyPatterns(results, patterns, p, jsCodes, baseUrl, hidden) ==
    IF p > Len(patterns) THEN results
    ELSE ApplyPatterns(ScanCodesV4(results, patterns[p], jsCodes, 1, baseUrl, hidden),
                       patterns, p + 1, jsCodes, baseUrl, hidden)

RECURSIVE HiddenExtrasFrom(_, _, _, _, _)
\* Hidden extras: jsCodes.forEach(code => patterns.forEach(.. beautified ..))
HiddenExtrasFrom(results, patterns, jsCodes, c, baseUrl) ==
    IF c > Len(jsCodes) THEN results
    ELSE HiddenExtrasFrom(ApplyPatterns(results, patterns, 1, <<Beautify(jsCodes[c])>>, baseUrl, TRUE),
                          patterns, jsCodes, c + 1, baseUrl)

\* page.on('request'): kept when the URL includes 'api' or 'graphql' or the
\* method is POST; score 0.9 when the URL includes '/v', else 0.7.
IsCapturedRequest(req) ==
    \/ Includes(req.url, <<"a","p","i">>)
    \/ Includes(req.url, <<"g","r","a","p","h","q","l">>)
    \/ req.method = POST

CapturedRequest(req) ==
    [url |-> req.url, method |-> req.method,
     score |-> IF Includes(req.url, <<"/","v">>) THEN 90 ELSE 70]

\* dynamicData: getEntriesByType('resource').filter(initiatorType fetch |
\* xmlhttprequest); [...networkRequests, ...dynamicData.map(..)].slice(0, 50)
extractWithPuppeteer(requests, entries) ==
    LET captured == SelectSeq(requests, IsCapturedRequest)
        dynamic  == SelectSeq(entries,
                              LAMBDA e : e.initiatorType \in {"fetch", "xmlhttprequest"})
    IN  Slice([k \in 1..Len(captured) |-> CapturedRequest(captured[k])]
                \o [k \in 1..Len(dynamic) |->
                      [url |-> dynamic[k].url, method |-> <<"D","Y","N","A","M","I","C">>,
                       score |-> 85]],
              DynamicCap)

\* sitemap$('loc').each: every non-empty <loc> text, as it stands.
SitemapItems(locs) ==
    LET found == SelectSeq(locs, LAMBDA loc : loc # <<>>)
    IN  [k \in 1..Len(found) |->
            [url |-> found[k], method |-> <<"S","I","T","E","M","A","P">>,
             context |-> Literal(<<"S","i","t","e","m","a","p">>), score |-> 90]]

\* mode scripts: every script[src] that resolves
ScriptItems(srcs, baseUrl) ==
    LET found == SelectSeq(srcs, LAMBDA src : src # <<>> /\ ResolveUrl(src, baseUrl) # Invalid)
    IN  [k \in 1..Len(found) |->
            [url |-> ResolveUrl(found[k], baseUrl), method |-> <<"S","C","R","I","P","T">>,
             context |-> Literal(<<"E","x","t","e","r","n","a","l">>), score |-> 50]]

\* Array.from(results).map(JSON.parse).filter(Boolean).sort(..).slice(0, 150)
RankCalls(results) == Slice(SortByScore(results), NetworkCap)

\* String.prototype.trim, for spaces
RECURSIVE Trim(_)
Trim(s) ==
    IF s # <<>> /\ s[1] = " " THEN Trim(Tail(s))
    ELSE IF s # <<>> /\ s[Len(s)] = " " THEN Trim(SubSeq(s, 1, Len(s) - 1))
    ELSE s

\* line.split(':')[1]: the text between the first and the second colon
\* (undefined, here the empty text, when the line holds no colon).
SplitColon1(line) ==
    LET first  == IndexFrom(line, <<":">>, 1)
        second == IF first = 0 THEN 0 ELSE IndexFrom(line, <<":">>, first + 1)
    IN  IF first = 0 THEN <<>>
        ELSE IF second = 0 THEN SubSeq(line, first + 1, Len(line))
        ELSE SubSeq(line, first + 1, second - 1)

IsHiddenRobotsLine(line) ==
    /\ StartsWith(line, <<"D","i","s","a","l","l","o","w",":">>)
    /\ Includes(line, <<"/","a","p","i","/">>)

RECURSIVE RobotsItems(_, _, _, _)
\* lines.forEach: a Disallow line that includes '/api/' adds its path,
\* resolved; a path that does not resolve throws out of the forEach into the
\* catch around the robots block, which keeps what was added before.
RobotsItems(results, lines, i, baseUrl) ==
    IF i > Len(lines) THEN results
    ELSE IF ~IsHiddenRobotsLine(lines[i]) THEN RobotsItems(results, lines, i + 1, baseUrl)
    ELSE IF ResolveUrl(Trim(SplitColon1(lines[i])), baseUrl) = Invalid THEN results
    ELSE RobotsItems(SetAdd(results, [url |-> ResolveUrl(Trim(SplitColon1(lines[i])), baseUrl),
                                       method |-> <<"R","O","B","O","T","S","-","H","I","D","D","E","N">>,
                                       context |-> Literal(<<"D","i","s","a","l","l","o","w","e","d">>),
                                       score |-> 95]),
                     lines, i + 1, baseUrl)

\* ------------------------------------ v5: fullNetworkScan (unnamed/part_000)

\* url.match(/api/i) && !url.match(/\.(css|js|..|json)$/i)
LooksLikeApi(url) ==
    /\ Includes(ToLowerCase(url), <<"a","p","i">>)
    /\ \A ext \in
           { <<".","c","s","s">>, <<".","j","s">>, <<".","p","n","g">>, <<".","j","p","g">>,
             <<".","g","i","f">>, <<".","w","o","f","f">>, <<".","t","t","f">>, <<".","m","p","4">>,
             <<".","m","p","3">>, <<".","w","a","s","m">>, <<".","x","m","l">>, <<".","t","x","t">>,
             <<".","j","s","o","n">> } : ~EndsWith(ToLowerCase(url), ext)

classifyResource(entry) ==
    IF entry.method = OPTIONS THEN "Options"
    ELSE IF entry.resourceType \in {"XHR", "Fetch"}
         THEN (IF LooksLikeApi(entry.url) THEN "Hidden APIs" ELSE entry.resourceType)
    ELSE IF entry.resourceType = "Document" THEN "Doc"
    ELSE IF entry.resourceType = "Stylesheet" THEN "CSS"
    ELSE IF entry.resourceType = "Script" THEN "JS/Scripts"
    ELSE IF entry.resourceType = "Image" THEN "Img"
    ELSE IF entry.resourceType = "Media" THEN "Media"
    ELSE IF entry.resourceType = "Font" THEN "Font"
    ELSE IF entry.resourceType = "WebSocket" THEN "Socket"
    ELSE IF EndsWith(entry.url, <<".","w","a","s","m">>) THEN "Wasm"
    ELSE IF Includes(entry.url, <<"/","s","i","t","e","m","a","p",".","x","m","l">>) THEN "Sitemap"
    ELSE IF Includes(entry.url, <<"/","r","o","b","o","t","s",".","t","x","t">>) THEN "Robots.txt"
    ELSE IF Includes(entry.url, <<"/","m","a","n","i","f","e","s","t",".","j","s","o","n">>) THEN "Manifest"
    ELSE "Other"

\* calculateScore with the boosts summed and no Math.min(score, 1.0).
calculateScoreUncapped(item) ==
    IF item.category \in {"Sitemap", "Manifest", "Robots.txt"} THEN 90
    ELSE 50
         + (IF item.category \in {"XHR", "Fetch", "Hidden APIs"} THEN 30 ELSE 0)
         + (IF \/ Includes(item.url, <<"/","a","p","i","/">>)
               \/ Includes(item.url, <<"/","v">>)
               \/ Includes(item.url, <<"/","g","r","a","p","h","q","l">>)
            THEN 20 ELSE 0)
         + (IF item.method \in {POST, <<"P","U","T">>, <<"D","E","L","E","T","E">>} THEN 10 ELSE 0)

\* calculateScore with the special-file score set before the boosts instead
\* of after them.
calculateScoreSpecialBoosted(item) ==
    LET base    == IF item.category \in {"Sitemap", "Manifest", "Robots.txt"} THEN 90 ELSE 50
        boosted == base
                   + (IF item.category \in {"XHR", "Fetch", "Hidden APIs"} THEN 30 ELSE 0)
                   + (IF \/ Includes(item.url, <<"/","a","p","i","/">>)
                         \/ Includes(item.url, <<"/","v">>)
                         \/ Includes(item.url, <<"/","g","r","a","p","h","q","l">>)
                      THEN 20 ELSE 0)
                   + (IF item.method \in {POST, <<"P","U","T">>, <<"D","E","L","E","T","E">>} THEN 10 ELSE 0)
    IN  Min(boosted, 100)

calculateScore(item) ==
    LET base    == 50
        boosted == base
                   + (IF item.category \in {"XHR", "Fetch", "Hidden APIs"} THEN 30 ELSE 0)
                   + (IF \/ Includes(item.url, <<"/","a","p","i","/">>)
                         \/ Includes(item.url, <<"/","v">>)
                         \/ Includes(item.url, <<"/","g","r","a","p","h","q","l">>)
                      THEN 20 ELSE 0)
                   + (IF item.method \in {POST, <<"P","U","T">>, <<"D","E","L","E","T","E">>} THEN 10 ELSE 0)
        score   == IF item.category \in {"Sitemap", "Manifest", "Robots.txt"} THEN 90
                   ELSE boosted
    IN  Min(score, 100)

\* page.on('response'): one resource per response
ResponseResource(ev) ==
    [category |-> classifyResource([url |-> ev.url, resourceType |-> ev.resourceType,
                                    method |-> ev.method]),
     url |-> ev.url, method |-> ev.method, type |-> ev.resourceType, source |-> "dynamic"]

\* page.on('websocket')
SocketResource(ev) ==
    [category |-> "Socket", url |-> ev.url, method |-> WS,
     type |-> "WebSocket", source |-> "dynamic"]

\* The signatures of fullNetworkScan: no send signature, no mode selection
\* but for the graphql and ws ones.
ScanPatterns(mode) ==
    SubSeq(BasePatterns, 1, 7)
      \o (IF mode = "graphql" THEN GraphqlPatterns ELSE <<>>)
      \o (IF mode = "ws" THEN WsPatterns ELSE <<>>)

StaticCall(endpoint, meth, context, source) ==
    [url |-> endpoint, method |-> meth, context |-> context,
     category |-> classifyResource([url |-> endpoint, method |-> meth,
                                    resourceType |-> "XHR"]),
     type |-> "XHR", source |-> source]

\* try { .. new URL(endpoint, baseUrl) .. staticCalls.push(..) } catch {}
PushCallV5(staticCalls, sig, match, context, baseUrl) ==
    IF ResolveEndpoint(EndpointOf(sig, match), baseUrl) = Invalid THEN staticCalls
    ELSE Append(staticCalls, StaticCall(ResolveEndpoint(EndpointOf(sig, match), baseUrl),
                                        MethodOf(sig, match), context, "static-js"))

RECURSIVE ScanCodeV5(_, _, _, _, _)
\* The first loop: every match that resolves is pushed; lastIndex is set to
\* match.index + 1 after the push and left at the end of the match when the
\* URL throws: the next token in both cases.
\* index: the position of the match, 0 when there is none.
ScanCodeV5(staticCalls, sig, code, index, baseUrl) ==
    IF index = 0 THEN staticCalls
    ELSE ScanCodeV5(PushCallV5(staticCalls, sig, MatchArray(sig.id, code[index]),
                               Context(code, index), baseUrl),
                    sig, code, Exec(sig.id, code, index + 1), baseUrl)

\* if (!staticCalls.some(sc => sc.url === endpoint)) { try { .. push .. } catch {} }
PushUnknownCallV5(staticCalls, sig, match, context, baseUrl) ==
    IF \/ \E k \in 1..Len(staticCalls) : staticCalls[k].url = EndpointOf(sig, match)
       \/ ResolveEndpoint(EndpointOf(sig, match), baseUrl) = Invalid
    THEN staticCalls
    ELSE Append(staticCalls, StaticCall(ResolveEndpoint(EndpointOf(sig, match), baseUrl),
                                        MethodOf(sig, match), context, "static-js-beautified"))

RECURSIVE ScanBeautifiedV5(_, _, _, _, _)
\* The loop over the beautified code: a match is pushed unless the raw
\* endpoint text equals the url of a call already pushed.
ScanBeautifiedV5(staticCalls, sig, beautified, index, baseUrl) ==
    IF index = 0 THEN staticCalls
    ELSE ScanBeautifiedV5(PushUnknownCallV5(staticCalls, sig, MatchArray(sig.id, beautified[index]),
                                            Context(beautified, index), baseUrl),
                          sig, beautified, Exec(sig.id, beautified, index + 1), baseUrl)

RECURSIVE ScanPatternsV5(_, _, _, _, _, _)
\* patterns.forEach(..) over one code, or over its beautified form.
ScanPatternsV5(staticCalls, patterns, p, code, baseUrl, beautified) ==
    IF p > Len(patterns) THEN staticCalls
    ELSE ScanPatternsV5(IF beautified
                        THEN ScanBeautifiedV5(staticCalls, patterns[p], code,
                                              Exec(patterns[p].id, code, 1), baseUrl)
                        ELSE ScanCodeV5(staticCalls, patterns[p], code,
                                        Exec(patterns[p].id, code, 1), baseUrl),
                        patterns, p + 1, code, baseUrl, beautified)

\* One body of the batch: a blank body is skipped; under mode hidden the
\* beautified code is scanned after the code itself.
ScanBodyV5(staticCalls, code, baseUrl, mode) ==
    IF ~IsNonBlank(code) THEN staticCalls
    ELSE IF mode # "hidden"
    THEN ScanPatternsV5(staticCalls, ScanPatterns(mode), 1, code, baseUrl, FALSE)
    ELSE ScanPatternsV5(ScanPatternsV5(staticCalls, ScanPatterns(mode), 1, code, baseUrl, FALSE),
                        ScanPatterns(mode), 1, Beautify(code), baseUrl, TRUE)

RECURSIVE ScanBatch(_, _, _, _, _)
\* batchCodes.forEach(code => ..)
ScanBatch(staticCalls, batchCodes, c, baseUrl, mode) ==
    IF c > Len(batchCodes) THEN staticCalls
    ELSE ScanBatch(ScanBodyV5(staticCalls, batchCodes[c], baseUrl, mode),
                   batchCodes, c + 1, baseUrl, mode)

SpecialFiles ==
    << [path |-> <<"/","s","i","t","e","m","a","p",".","x","m","l">>, cat |-> "Sitemap"],
       [path |-> <<"/","r","o","b","o","t","s",".","t","x","t">>, cat |-> "Robots.txt"],
       [path |-> <<"/","m","a","n","i","f","e","s","t",".","j","s","o","n">>, cat |-> "Manifest"] >>

SpecialResource(sp, baseUrl) ==
    [category |-> sp.cat, url |-> ResolveUrl(sp.path, baseUrl), method |-> GET,
     type |-> "fetch", source |-> "special"]

\* The switch of attemptScan: the result predicate of the mode.
ModeFilter(mode, r) ==
    CASE mode = "fetch" -> r.type = "Fetch"
      [] mode = "xhr" -> r.type = "XHR"
      [] mode = "post" -> r.method = POST
      [] mode = "hidden" -> r.category = "Hidden APIs"
      [] mode = "graphql" -> Includes(r.url, <<"g","r","a","p","h","q","l">>)
      [] mode = "ws" -> r.category = "Socket"
      [] mode = "sitemap" -> r.category = "Sitemap"
      [] mode = "robots" -> r.category = "Robots.txt"
      [] mode \in {"scripts", "js"} -> r.category = "JS/Scripts"
      [] mode = "doc" -> r.category = "Doc"
      [] mode = "css" -> r.category = "CSS"
      [] mode = "font" -> r.category = "Font"
      [] mode = "img" -> r.category = "Img"
      [] mode = "media" -> r.category = "Media"
      [] mode = "manifest" -> r.category = "Manifest"
      [] mode = "wasm" -> r.category = "Wasm"
      [] mode = "options" -> r.category = "Options"
      [] mode = "all-endpoints" ->
            \/ r.type \in {"XHR", "Fetch"}
            \/ Includes(r.url, <<"a","p","i">>)
            \/ Includes(r.url, <<"/","v">>)
      [] mode \in {"browser", "full", "all"} -> TRUE
      [] OTHER -> r.category \in {"XHR", "Fetch", "Hidden APIs", "Socket"}

ResultsCapV5 == 200

\* filtered.map(item => ({ ...item, score })).sort(..).slice(0, 200)
RankResources(mode, allResources) ==
    LET filtered == SelectSeq(allResources, LAMBDA r : ModeFilter(mode, r))
    IN  Slice(SortByScore([k \in 1..Len(filtered) |->
                              ("score" :> calculateScore(filtered[k])) @@ filtered[k]]),
              ResultsCapV5)

\* ----------------------------------------------------------------- inputs
\* The pages, scripts and network traffic the requests of the model meet.

\* norm: normalizeUrl of the url of the request
BaseUrl == <<"h","t","t","p","s",":","/","/","e","x",".","c","o","m","/">>

\* fetch("/api/users", {method:"POST"})
FetchUsersPost ==
    Token("fetch", <<"/","a","p","i","/","u","s","e","r","s">>, <<"P","O","S","T">>, <<"f","e","t","c","h","(","\"","/","a","p","i","/","u","s","e","r","s","\"",","," ","{","m","e","t","h","o","d",":","\"","P","O","S","T","\"">>)

\* open("GET","/internal/v2/data")
OpenInternal ==
    Token("open", <<"/","i","n","t","e","r","n","a","l","/","v","2","/","d","a","t","a">>, <<"G","E","T">>, <<"o","p","e","n","(","\"","G","E","T","\"",",","\"","/","i","n","t","e","r","n","a","l","/","v","2","/","d","a","t","a","\"">>)

\* "wss://ex.com/live"
WsLiteral == Token("ws", <<>>, <<>>, <<"w","s","s",":","/","/","e","x",".","c","o","m","/","l","i","v","e">>)

\* fetch("/r/<n>")
FetchNumbered(n) ==
    Token("fetch", <<"/","r","/">> \o DecimalText(n), <<>>, <<"f","e","t","c","h","(","\"","/","r","/">> \o DecimalText(n) \o <<"\"">>)

\* The number of anchors, responses and <loc> elements of the large inputs:
\* more than every cap of the program.
BulkLen == 201

\* The scripts of the model:
\*   fetch("/api/users", {method:"POST"})
\*   open("GET","/internal/v2/data")
\*   var 1 fetch("/api/users") var 2 var 3 var 4 fetch("/api/users")
\*     open("post", "https://ex.com/api/save")
\*   xhr.send(null) axios.post("httpbin/post") axios.get("//") $.post("/graphql")
\*     query{me} "wss://ex.com/live"
\*     (httpbin/post starts with http and is no URL; new URL rejects //)
\*   fetch("/r/1") fetch("/r/2") fetch("/r/1")
Codes ==
    { <<FetchUsersPost>>,
      <<OpenInternal>>,
      << Token("text", <<>>, <<>>, <<"v","a","r"," ","1">>),
         Token("fetch", <<"/","a","p","i","/","u","s","e","r","s">>, <<>>, <<"f","e","t","c","h","(","\"","/","a","p","i","/","u","s","e","r","s","\"">>),
         Token("text", <<>>, <<>>, <<"v","a","r"," ","2">>), Token("text", <<>>, <<>>, <<"v","a","r"," ","3">>), Token("text", <<>>, <<>>, <<"v","a","r"," ","4">>),
         Token("fetch", <<"/","a","p","i","/","u","s","e","r","s">>, <<>>, <<"f","e","t","c","h","(","\"","/","a","p","i","/","u","s","e","r","s","\"">>),
         Token("open", <<"h","t","t","p","s",":","/","/","e","x",".","c","o","m","/","a","p","i","/","s","a","v","e">>, <<"p","o","s","t">>, <<"o","p","e","n","(","\"","p","o","s","t","\"",","," ","\"","h","t","t","p","s",":","/","/","e","x",".","c","o","m","/","a","p","i","/","s","a","v","e","\"">>) >>,
      << Token("send", <<>>, <<>>, <<"s","e","n","d","(","n","u","l","l",")">>),
         Token("axios.post", <<"h","t","t","p","b","i","n","/","p","o","s","t">>, <<>>, <<"a","x","i","o","s",".","p","o","s","t","(","\"","h","t","t","p","b","i","n","/","p","o","s","t","\"">>),
         Token("axios.get", <<"/","/">>, <<>>, <<"a","x","i","o","s",".","g","e","t","(","\"","/","/","\"">>),
         Token("$.post", <<"/","g","r","a","p","h","q","l">>, <<>>, <<"$",".","p","o","s","t","(","\"","/","g","r","a","p","h","q","l","\"">>),
         Token("gqlop", <<>>, <<>>, <<"q","u","e","r","y","{","m","e","}">>),
         WsLiteral >>,
      <<FetchNumbered(1), FetchNumbered(2), FetchNumbered(1)>> }

\* script[src] elements: the src attribute and what fetching it yields.
ExternalScript(code) == [src |-> <<"/","s","t","a","t","i","c","/","a","p","p",".","j","s">>, ok |-> TRUE, code |-> code]

FailedScript == [src |-> <<"/","/","c","d","n",".","e","x",".","c","o","m","/","l","i","b",".","j","s">>, ok |-> FALSE, code |-> <<>>]

\* More script[src] elements than the builder fetches: the fetches of the
\* second and the fifth fail, the n-th of the others yields fetch("/r/<n>").
ManyLen == 11

ManyScripts ==
    [n \in 1..ManyLen |->
        IF n \in {2, 5} THEN FailedScript ELSE ExternalScript(<<FetchNumbered(n)>>)]

\* The network traffic of the rendered page: requests with their responses,
\* their resource-timing initiator, and sockets.
Request(url, method, resourceType, initiatorType) ==
    [kind |-> "http", url |-> url, method |-> method,
     resourceType |-> resourceType, initiatorType |-> initiatorType]

Traffics ==
    { <<>>,
      << Request(BaseUrl, GET, "Document", "navigation"),
         Request(<<"h","t","t","p","s",":","/","/","e","x",".","c","o","m","/","a","p","i","/","v","1","/","i","t","e","m","s">>, POST, "XHR", "xmlhttprequest"),
         Request(<<"h","t","t","p","s",":","/","/","e","x",".","c","o","m","/","l","o","g","o",".","p","n","g">>, GET, "Image", "img"),
         Request(<<"h","t","t","p","s",":","/","/","e","x",".","c","o","m","/","a","p","i","/","v","1","/","i","t","e","m","s">>, OPTIONS, "Fetch", "fetch"),
         [kind |-> "socket", url |-> <<"w","s","s",":","/","/","e","x",".","c","o","m","/","p","u","s","h">>,
          method |-> <<>>, resourceType |-> "WebSocket", initiatorType |-> "other"] >>,
      [n \in 1..BulkLen |->
          Request(<<"h","t","t","p","s",":","/","/","e","x",".","c","o","m","/","a","p","i","/","r","/">> \o DecimalText(n), GET, "Fetch", "fetch")] }

\* /sitemap.xml, /robots.txt and /manifest.json of the site: whether the
\* fetch succeeds, the <loc> texts and the lines.
SpecialSites ==
    { [sitemapOk |-> TRUE, robotsOk |-> TRUE, manifestOk |-> FALSE,
       locs |-> << <<"h","t","t","p","s",":","/","/","e","x",".","c","o","m","/","p","/","1">>, <<"n","o","t"," ","a"," ","u","r","l">>, <<>> >>,
       lines |-> << <<"U","s","e","r","-","a","g","e","n","t",":"," ","*">>, <<"D","i","s","a","l","l","o","w",":"," ","/","a","p","i","/","p","r","i","v","a","t","e">>, <<"D","i","s","a","l","l","o","w",":"," ","/","t","m","p">> >>],
      [sitemapOk |-> FALSE, robotsOk |-> FALSE, manifestOk |-> TRUE,
       locs |-> <<>>, lines |-> <<>>],
      [sitemapOk |-> TRUE, robotsOk |-> FALSE, manifestOk |-> FALSE,
       locs |-> [n \in 1..BulkLen |-> <<"h","t","t","p","s",":","/","/","e","x",".","c","o","m","/","p","/">> \o DecimalText(n)], lines |-> <<>>] }

Anchor(href, text, inArticle, inContainer) ==
    [href |-> href, text |-> text, title |-> <<>>,
     inArticle |-> inArticle, inContainer |-> inContainer]

FeedLinkChoices ==
    { <<>>,
      << [href |-> <<"/","f","e","e","d">>, title |-> <<>>] >>,
      << [href |-> <<"/","p","/","1">>, title |-> <<"P","o","s","t","s">>], [href |-> <<>>, title |-> <<>>] >> }

ArticleAnchorChoices ==
    { <<>>,
      << Anchor(<<"/","p","/","1">>, <<"A"," ","p","o","s","t"," ","t","i","t","l","e">>, TRUE, FALSE) >>,
      << Anchor(<<"/","f","e","e","d">>, <<"A","l","l"," ","t","h","e"," ","p","o","s","t","s">>, TRUE, FALSE), Anchor(<<"/","p","/","2">>, <<"T","w","o">>, TRUE, FALSE) >> }

JsonLdObject(type, url, headline) ==
    [type |-> type, url |-> url, mainEntityOfPage |-> <<>>, headline |-> headline, name |-> <<>>]

JsonLdChoices ==
    { <<>>,
      << [text |-> "json", items |-> << JsonLdObject(<<"B","l","o","g","P","o","s","t","i","n","g">>, <<"/","p","/","1">>, <<"T","i","t","l","e">>) >>] >>,
      << [text |-> "malformed", items |-> <<>>],
         [text |-> "json", items |-> << JsonLdObject(<<"N","e","w","s","A","r","t","i","c","l","e">>, <<"/","f","e","e","d">>, <<"N","e","w","s">>),
                                        JsonLdObject(<<"P","e","r","s","o","n">>, <<"/","p","/","1">>, <<"M","e">>),
                                        JsonLdObject(<<"A","r","t","i","c","l","e">>, <<"/","p","/","3">>, <<>>) >>] >> }

OpenGraphChoices ==
    { [ogUrl |-> <<>>, ogTitle |-> <<>>],
      [ogUrl |-> <<"h","t","t","p","s",":","/","/","e","x",".","c","o","m","/","p","/","1">>, ogTitle |-> <<"T","i","t","l","e">>],
      [ogUrl |-> <<"/","f","e","e","d">>, ogTitle |-> <<"F","e","e","d">>] }

PlainAnchorChoices ==
    { <<>>,
      << Anchor(<<"/","p","/","1">>, <<"R","e","a","d"," ","m","o","r","e"," ","h","e","r","e">>, FALSE, FALSE) >>,
      << Anchor(<<"/","b","l","o","g","/","x">>, <<"H","i">>, FALSE, FALSE), Anchor(<<"/","a","b","o","u","t">>, <<"A","b","o","u","t">>, FALSE, FALSE),
         Anchor(<<"/","f","e","e","d">>, <<>>, FALSE, TRUE) >>,
      << Anchor(<<"h","t","t","p",":","/","/">>, <<"B","r","o","k","e","n">>, FALSE, FALSE) >> }

NoSpecial ==
    [sitemapOk |-> FALSE, robotsOk |-> FALSE, manifestOk |-> FALSE, locs |-> <<>>, lines |-> <<>>]

\* A page: its markup as the selectors of the program see it, the scripts
\* its script[src] elements load, and what the site answers beside it.
Page(feedLinks, anchors, jsonld, og, inlineScripts, scripts, traffic, special) ==
    [feedLinks |-> feedLinks, anchors |-> anchors, jsonld |-> jsonld,
     ogUrl |-> og.ogUrl, ogTitle |-> og.ogTitle,
     inlineScripts |-> inlineScripts, scripts |-> scripts,
     traffic |-> traffic, special |-> special]

NoOpenGraph == [ogUrl |-> <<>>, ogTitle |-> <<>>]

ContentPages ==
    { Page(f, a \o h, j, o, <<>>, <<>>, <<>>, NoSpecial) :
        f \in FeedLinkChoices, a \in ArticleAnchorChoices, j \in JsonLdChoices,
        o \in OpenGraphChoices, h \in PlainAnchorChoices }
    \cup
    { Page(<<>>, [n \in 1..BulkLen |-> Anchor(<<"/","p","/">> \o DecimalText(n), <<"A"," ","p","o","s","t"," ","t","i","t","l","e">>, TRUE, FALSE)],
           <<>>, NoOpenGraph, <<>>, <<>>, <<>>, NoSpecial) }

\* The scripts of a page are inline, or loaded by script[src] elements.
ScriptPages ==
    LET SomeTraffic == CHOOSE t \in Traffics : Len(t) \in 1..(BulkLen - 1)
        SomeSite == CHOOSE s \in SpecialSites : s.robotsOk
    IN
        { Page(<<>>, <<>>, <<>>, NoOpenGraph, <<code>>, <<FailedScript>>, SomeTraffic, SomeSite) :
            code \in Codes }
        \cup
        { Page(<<>>, <<>>, <<>>, NoOpenGraph, <<>>, <<FailedScript, ExternalScript(code)>>,
               SomeTraffic, SomeSite) :
            code \in Codes }
        \cup
        { Page(<<>>, <<>>, <<>>, NoOpenGraph, <<>>, <<ExternalScript(<<OpenInternal>>)>>, SomeTraffic, s) :
            s \in SpecialSites }
        \cup
        { Page(<<>>, <<>>, <<>>, NoOpenGraph, <<>>, <<ExternalScript(<<OpenInternal>>)>>, t, NoSpecial) :
            t \in Traffics }
        \cup
        { Page(<<>>, <<>>, <<>>, NoOpenGraph, <<>>, ManyScripts, <<>>, NoSpecial) }

Modes ==
    { "posts", "post", "fetch", "xhr", "hidden", "graphql", "ws", "sitemap", "robots",
      "scripts", "all-endpoints", "all", "full" }

Revisions == { "v4", "v5" }

\* ---------------------------------------------------------------- request
\* One request: attemptScan and the extraction it runs.

MaxAttempts == 3

\* Where attemptScan starts: v4 fetches the page for every mode, v5 fetches
\* it for mode posts and renders it (fullNetworkScan) for every other mode.
StartOf(r, m) == IF r = "v4" \/ m = "posts" THEN "fetch" ELSE "launch"

\* script[src] elements whose src resolves, the first MaxScripts of them (v4).
ScriptUrlsV4(scripts, baseUrl) ==
    LET found == SelectSeq(scripts, LAMBDA sc : sc.src # <<>> /\ ResolveUrl(sc.src, baseUrl) # Invalid)
    IN  Slice([k \in 1..Len(found) |->
                  [url |-> ResolveUrl(found[k].src, baseUrl), ok |-> found[k].ok,
                   code |-> found[k].code]],
              MaxScripts)

\* The first MaxScripts script[src] elements, the src resolved or, when it
\* does not resolve, as it stands (v5).
ScriptUrlsV5(scripts, baseUrl) ==
    Slice([k \in 1..Len(scripts) |->
              [url |-> IF ResolveUrl(scripts[k].src, OriginOf(baseUrl)) = Invalid
                       THEN scripts[k].src
                       ELSE ResolveUrl(scripts[k].src, OriginOf(baseUrl)),
               ok |-> scripts[k].ok, code |-> scripts[k].code]],
          MaxScripts)

\* A builder without the catch of the single fetch: one failed fetch costs
\* the bodies of its whole batch.
BatchCodesAbortOnFailure(urls, i) ==
    [k \in 1..(Min(i + Concurrency, Len(urls)) - i) |->
        IF \A j \in 1..(Min(i + Concurrency, Len(urls)) - i) : urls[i + j].ok
        THEN urls[i + k].code ELSE <<>>]

\* jsUrls.slice(i, i + concurrency), fetched: the body, or '' when the fetch fails.
BatchCodes(urls, i) ==
    [k \in 1..(Min(i + Concurrency, Len(urls)) - i) |->
        IF urls[i + k].ok THEN urls[i + k].code ELSE <<>>]

\* function normalizeUrl(u): null (Invalid) when u is no string (u.startsWith
\* throws inside the try) or new URL rejects it.
normalizeUrl(hasUrl, u) ==
    IF ~hasUrl THEN Invalid
    ELSE IF StartsWith(u, <<"h","t","t","p">>) THEN ParseAbsolute(u)
    ELSE ParseAbsolute(<<"h","t","t","p","s",":","/","/">> \o u)

\* The requests of the model: req.method, whether req.body is an object,
\* whether it has a url, and the url. Every url that is valid normalizes to
\* BaseUrl.
Requests ==
    { [method |-> POST, hasBody |-> TRUE, hasUrl |-> TRUE, url |-> <<"e","x",".","c","o","m">>],
      [method |-> GET, hasBody |-> TRUE, hasUrl |-> TRUE, url |-> <<"e","x",".","c","o","m">>],
      [method |-> POST, hasBody |-> TRUE, hasUrl |-> FALSE, url |-> <<>>],
      [method |-> POST, hasBody |-> TRUE, hasUrl |-> TRUE, url |-> <<"h","t","t","p",":","/","/">>],
      [method |-> POST, hasBody |-> FALSE, hasUrl |-> FALSE, url |-> <<>>] }

\* clearTimeout(timeoutId) after the page fetch or the scan: v5 only, v4
\* never clears its timer; a timer that has fired stays fired.
ClearTimeout(r, t) == IF r = "v5" /\ t = "armed" THEN "cleared" ELSE t

VARIABLES rev, mode, page, request, pc, attempt, err, timer, results, jsCodes, jsUrls,
          batch, inflight, staticCalls, networkRequests, pending, browser, sessions,
          response, peer, loop

vars == <<rev, mode, page, request, pc, attempt, err, timer, results, jsCodes, jsUrls,
          batch, inflight, staticCalls, networkRequests, pending, browser, sessions,
          response, peer, loop>>

\* peer is the other invocation of the handler on the same process, suspended
\* at an await, or [id |-> 0] when there is none; no statement of the handler
\* refers to it.
\* loop is one while-exec loop of the call-site scan, followed match by
\* match, or [at |-> "none"] when the scan is taken as a whole.
input == <<rev, mode, page, request, peer, loop>>


scan == <<jsCodes, jsUrls, batch, inflight, staticCalls>>

capture == <<networkRequests, pending, browser, sessions>>

Init ==
    /\ rev \in Revisions
    /\ mode \in Modes
    /\ page \in IF mode = "posts" THEN ContentPages ELSE ScriptPages
    /\ request \in Requests
    /\ pc = "entry"
    /\ attempt = 1
    /\ err = "none"
    /\ timer = "none"
    /\ results = <<>>
    /\ jsCodes = <<>>
    /\ jsUrls = <<>>
    /\ batch = 0
    /\ inflight = {}
    /\ staticCalls = <<>>
    /\ networkRequests = <<>>
    /\ pending = <<>>
    /\ browser = "none"
    /\ sessions = 0
    /\ response = [status |-> "none", items |-> <<>>]
    /\ peer = [id |-> 0]
    /\ loop = [at |-> "none"]

\* module.exports: the method check, the destructuring of req.body (a
\* TypeError when the request has no body: it is thrown outside every try and
\* rejects the handler), normalizeUrl, and the first call of attemptScan,
\* which arms the timer of its AbortController.
Validate ==
    /\ pc = "entry"
    /\ IF request.method # POST
       THEN /\ response' = [status |-> "405", items |-> <<>>]
            /\ pc' = "done"
            /\ UNCHANGED <<err, timer>>
       ELSE IF ~request.hasBody
       THEN /\ err' = "TypeError"
            /\ pc' = "rejected"
            /\ UNCHANGED <<response, timer>>
       ELSE IF normalizeUrl(request.hasUrl, request.url) = Invalid
       THEN /\ response' = [status |-> "400", items |-> <<>>]
            /\ pc' = "done"
            /\ UNCHANGED <<err, timer>>
       ELSE /\ pc' = StartOf(rev, mode)
            /\ timer' = "armed"
            /\ UNCHANGED <<err, response>>
    /\ UNCHANGED <<input, attempt, results, scan, capture>>

\* The page fetch answers with a success status.
FetchPageOk ==
    /\ pc = "fetch"
    /\ pc' = IF mode = "posts" THEN "feed" ELSE "collect"
    /\ results' = <<>>
    /\ timer' = ClearTimeout(rev, timer)
    /\ UNCHANGED <<input, attempt, err, scan, capture, response>>

\* if (!resp.ok && attempt < 3) return attemptScan(attempt + 1);
\* if (!resp.ok) return res.status(502).json(..)
FetchPageNotOk ==
    /\ pc = "fetch"
    /\ \E status \in { "404", "503" } :
          IF attempt < MaxAttempts
          THEN /\ attempt' = attempt + 1 /\ pc' = StartOf(rev, mode) /\ response' = response
               /\ timer' = "armed"
          ELSE /\ attempt' = attempt /\ pc' = "done"
               /\ response' = [status |-> "502", items |-> <<>>, upstream |-> status]
               /\ timer' = ClearTimeout(rev, timer)
    /\ UNCHANGED <<input, err, results, scan, capture>>

\* fetch rejects: a network error, or the AbortError of the deadline.
FetchPageThrows ==
    /\ pc = "fetch"
    /\ \E e \in {"FetchError", "AbortError"} :
          /\ err' = e
          /\ timer' = IF e = "AbortError" THEN "fired" ELSE timer
    /\ pc' = "threw"
    /\ UNCHANGED <<input, attempt, results, scan, capture, response>>

\* setTimeout(() => controller.abort(), ..) fires while the request awaits
\* something other than the page fetch: the signal was given to fetch(norm)
\* alone, so nothing is aborted.
DeadlineElapses ==
    /\ timer = "armed"
    /\ pc \in { "launch", "goto", "fetching", "close" }
    /\ timer' = "fired"
    /\ UNCHANGED <<input, pc, attempt, err, results, scan, capture, response>>

\* catch (err): v4 retries while attempt < 3 and then answers 408 or 500;
\* v5 first calls clearTimeout(timeoutId), a const of the try block that is
\* not in scope here: the ReferenceError rejects attemptScan.
Catch ==
    /\ pc = "threw"
    /\ IF rev = "v5"
       THEN pc' = "rejected" /\ UNCHANGED <<attempt, response, timer>>
       ELSE IF attempt < MaxAttempts
       THEN /\ attempt' = attempt + 1 /\ pc' = StartOf(rev, mode) /\ response' = response
            /\ timer' = "armed"
       ELSE /\ attempt' = attempt /\ pc' = "done"
            /\ response' = [status |-> IF err = "AbortError" THEN "408" ELSE "500",
                            items |-> <<>>]
            /\ timer' = timer
    /\ UNCHANGED <<input, err, results, scan, capture>>

\* ---- extractPosts
RssAtom ==
    /\ pc = "feed"
    /\ results' = DetectFeed(results, page.feedLinks, 1, BaseUrl)
    /\ pc' = "article"
    /\ UNCHANGED <<input, timer, attempt, err, scan, capture, response>>

ArticleAnchors ==
    /\ pc = "article"
    /\ results' = DetectArticle(results, page.anchors, BaseUrl)
    /\ pc' = "jsonld"
    /\ UNCHANGED <<input, timer, attempt, err, scan, capture, response>>

JsonLd ==
    /\ pc = "jsonld"
    /\ results' = DetectJsonLd(results, page.jsonld, 1, BaseUrl)
    /\ pc' = "opengraph"
    /\ UNCHANGED <<input, timer, attempt, err, scan, capture, response>>

OpenGraph ==
    /\ pc = "opengraph"
    /\ results' = DetectOpenGraph(results, page.ogUrl, page.ogTitle, BaseUrl)
    /\ pc' = "heuristic"
    /\ UNCHANGED <<input, timer, attempt, err, scan, capture, response>>

Heuristic ==
    /\ pc = "heuristic"
    /\ LET out == DetectHeuristic(results, page.anchors, BaseUrl)
       IN  /\ results' = out.results
           /\ pc' = IF out.threw THEN "threw" ELSE "rankposts"
           /\ err' = IF out.threw THEN "TypeError" ELSE err
    /\ UNCHANGED <<input, timer, attempt, scan, capture, response>>

\* data.items = await extractPosts(html, norm); res.json(data)
RespondPosts ==
    /\ pc = "rankposts"
    /\ response' = [status |-> "200", items |-> RankPosts(results)]
    /\ pc' = "done"
    /\ UNCHANGED <<input, timer, attempt, err, results, scan, capture>>

\* ---- v4: extractNetworkCalls
CollectScripts ==
    /\ pc = "collect" /\ rev = "v4"
    /\ jsCodes' = SelectSeq(page.inlineScripts, IsNonBlank)
    /\ jsUrls' = ScriptUrlsV4(page.scripts, BaseUrl)
    /\ batch' = 0
    /\ pc' = "batch"
    /\ UNCHANGED <<input, timer, attempt, err, results, inflight, staticCalls, capture, response>>

\* batch.map(async (jsUrl, idx) => ..): the promises of one batch are
\* created, each one fetch of a script.
StartBatch ==
    /\ pc = "batch" /\ rev \in Revisions
    /\ batch < Len(jsUrls)
    /\ inflight' = (batch + 1)..Min(batch + Concurrency, Len(jsUrls))
    /\ pc' = "fetching"
    /\ UNCHANGED <<input, timer, attempt, err, results, jsCodes, jsUrls, batch, staticCalls,
                   capture, response>>

\* One fetch of a script settles: response.data, or '' from its catch.
SettleFetch ==
    /\ pc = "fetching"
    /\ \E k \in inflight : inflight' = inflight \ {k}
    /\ UNCHANGED <<input, timer, pc, attempt, err, results, jsCodes, jsUrls, batch,
                   staticCalls, capture, response>>

\* One batch of script fetches, all settled (await Promise.all), v4: the
\* bodies that are not blank join jsCodes.
FetchBatchV4 ==
    /\ pc = "fetching" /\ rev = "v4"
    /\ inflight = {}
    /\ jsCodes' = jsCodes \o SelectSeq(BatchCodes(jsUrls, batch), IsNonBlank)
    /\ batch' = batch + Concurrency
    /\ pc' = "batch"
    /\ UNCHANGED <<input, timer, attempt, err, results, jsUrls, inflight, staticCalls, capture,
                   response>>

ApplyPatternsV4 ==
    /\ pc = "batch" /\ rev = "v4"
    /\ batch >= Len(jsUrls)
    /\ results' = ApplyPatterns(results, getPatternsForMode(mode), 1, jsCodes, BaseUrl, FALSE)
    /\ pc' = IF mode \in {"hidden", "graphql", "ws"} THEN "launch" ELSE "sitemap"
    /\ UNCHANGED <<input, timer, attempt, err, scan, capture, response>>

\* ---- the rendered session: launchBrowser, the listeners, page.goto
LaunchBrowser ==
    /\ pc = "launch"
    /\ browser' = "open"
    /\ sessions' = sessions + 1
    /\ pending' = page.traffic
    /\ networkRequests' = <<>>
    /\ results' = IF rev = "v5" THEN <<>> ELSE results
    /\ pc' = "goto"
    /\ UNCHANGED <<input, timer, attempt, err, scan, response>>

\* puppeteer.launch rejects: no session exists, and the exception reaches the
\* catch of attemptScan.
LaunchThrows ==
    /\ pc = "launch"
    /\ err' = "LaunchError"
    /\ pc' = "threw"
    /\ UNCHANGED <<input, timer, attempt, results, scan, capture, response>>

\* v4: page.on('request')
OnRequest ==
    /\ pc = "goto" /\ rev = "v4"
    /\ pending # <<>>
    /\ networkRequests' =
          IF Head(pending).kind = "http" /\ IsCapturedRequest(Head(pending))
          THEN Append(networkRequests, CapturedRequest(Head(pending)))
          ELSE networkRequests
    /\ pending' = Tail(pending)
    /\ UNCHANGED <<input, timer, pc, attempt, err, results, scan, browser, sessions, response>>

\* v5: page.on('response') and page.on('websocket')
OnResponse ==
    /\ pc = "goto" /\ rev = "v5"
    /\ pending # <<>> /\ Head(pending).kind = "http"
    /\ results' = Append(results, ResponseResource(Head(pending)))
    /\ pending' = Tail(pending)
    /\ UNCHANGED <<input, timer, pc, attempt, err, scan, networkRequests, browser, sessions,
                   response>>

OnWebsocket ==
    /\ pc = "goto" /\ rev = "v5"
    /\ pending # <<>> /\ Head(pending).kind = "socket"
    /\ results' = Append(results, SocketResource(Head(pending)))
    /\ pending' = Tail(pending)
    /\ UNCHANGED <<input, timer, pc, attempt, err, scan, networkRequests, browser, sessions,
                   response>>

\* page.goto rejects (navigation error or its 15 s timeout): the exception
\* leaves the scan before browser.close() and reaches the catch of attemptScan.
GotoThrows ==
    /\ pc = "goto"
    /\ err' = "TimeoutError"
    /\ pc' = "threw"
    /\ UNCHANGED <<input, timer, attempt, results, scan, capture, response>>

\* page.evaluate rejects (the page crashed or navigated away): after the
\* settle wait, and in v5 again for pageInfo; like page.goto it leaves the
\* scan before browser.close().
EvaluateThrows ==
    /\ (pc = "goto" /\ pending = <<>>) \/ pc = "close"
    /\ err' = "ProtocolError"
    /\ pc' = "threw"
    /\ UNCHANGED <<input, timer, attempt, results, scan, capture, response>>

\* v4: the page is idle; the resource timing entries are read, the browser
\* is closed and the capture joins the Set.
CaptureDoneV4 ==
    /\ pc = "goto" /\ rev = "v4"
    /\ pending = <<>>
    /\ browser' = "closed"
    /\ sessions' = sessions - 1
    /\ results' = SetAddAll(results,
                            extractWithPuppeteer(networkRequests,
                                                 SelectSeq(page.traffic, LAMBDA ev : ev.kind = "http")))
    /\ pc' = "sitemap"
    /\ UNCHANGED <<input, timer, attempt, err, scan, networkRequests, pending, response>>

\* v5: the page is idle; the script[src] URLs are read from the page.
EvaluateScriptUrls ==
    /\ pc = "goto" /\ rev = "v5"
    /\ pending = <<>>
    /\ jsUrls' = ScriptUrlsV5(page.scripts, BaseUrl)
    /\ staticCalls' = <<>>
    /\ batch' = 0
    /\ pc' = "batch"
    /\ UNCHANGED <<input, timer, attempt, err, results, jsCodes, inflight, capture, response>>

\* One batch of script fetches, all settled, v5: each body is scanned.
FetchBatchV5 ==
    /\ pc = "fetching" /\ rev = "v5"
    /\ inflight = {}
    /\ staticCalls' = ScanBatch(staticCalls, BatchCodes(jsUrls, batch), 1, BaseUrl, mode)
    /\ batch' = batch + Concurrency
    /\ pc' = "batch"
    /\ UNCHANGED <<input, timer, attempt, err, results, jsCodes, jsUrls, inflight, capture,
                   response>>

\* v5: for (const sp of special): a fetch that fails is logged and skipped.
SpecialFilesV5 ==
    /\ pc = "batch" /\ rev = "v5"
    /\ batch >= Len(jsUrls)
    /\ results' = results
          \o (IF page.special.sitemapOk THEN <<SpecialResource(SpecialFiles[1], BaseUrl)>> ELSE <<>>)
          \o (IF page.special.robotsOk THEN <<SpecialResource(SpecialFiles[2], BaseUrl)>> ELSE <<>>)
          \o (IF page.special.manifestOk THEN <<SpecialResource(SpecialFiles[3], BaseUrl)>> ELSE <<>>)
    /\ pc' = "close"
    /\ UNCHANGED <<input, timer, attempt, err, scan, capture, response>>

\* v5: pageInfo, browser.close(), allResources.push(...staticCalls)
CloseAndCombine ==
    /\ pc = "close"
    /\ browser' = "closed"
    /\ sessions' = sessions - 1
    /\ results' = results \o staticCalls
    /\ pc' = "filter"
    /\ timer' = ClearTimeout(rev, timer)
    /\ UNCHANGED <<input, attempt, err, scan, networkRequests, pending, response>>

\* v5: the switch on mode, the scores, the sort, the slice; res.json(data)
RespondResources ==
    /\ pc = "filter"
    /\ response' = [status |-> "200", items |-> RankResources(mode, results)]
    /\ pc' = "done"
    /\ UNCHANGED <<input, timer, attempt, err, results, scan, capture>>

\* ---- v4: the blocks of extractNetworkCalls after the capture
SitemapBlock ==
    /\ pc = "sitemap"
    /\ results' = IF mode = "sitemap" /\ page.special.sitemapOk
                  THEN SetAddAll(results, SitemapItems(page.special.locs))
                  ELSE results
    /\ pc' = "robots"
    /\ UNCHANGED <<input, timer, attempt, err, scan, capture, response>>

RobotsBlock ==
    /\ pc = "robots"
    /\ results' = IF mode = "robots" /\ page.special.robotsOk
                  THEN RobotsItems(results, page.special.lines, 1, BaseUrl)
                  ELSE results
    /\ pc' = "hidden"
    /\ UNCHANGED <<input, timer, attempt, err, scan, capture, response>>

HiddenExtras ==
    /\ pc = "hidden"
    /\ results' = IF mode = "hidden"
                  THEN HiddenExtrasFrom(results, getPatternsForMode(mode), jsCodes, 1, BaseUrl)
                  ELSE results
    /\ pc' = "scripts"
    /\ UNCHANGED <<input, timer, attempt, err, scan, capture, response>>

ScriptsBlock ==
    /\ pc = "scripts"
    /\ results' = IF mode = "scripts"
                  THEN SetAddAll(results,
                                 ScriptItems([k \in 1..Len(page.scripts) |-> page.scripts[k].src], BaseUrl))
                  ELSE results
    /\ pc' = "rank"
    /\ UNCHANGED <<input, timer, attempt, err, scan, capture, response>>

\* data.items = await extractNetworkCalls(html, norm, mode); res.json(data)
RespondCalls ==
    /\ pc = "rank"
    /\ response' = [status |-> "200", items |-> RankCalls(results)]
    /\ pc' = "done"
    /\ UNCHANGED <<input, timer, attempt, err, results, scan, capture>>

Next ==
    \/ Validate
    \/ FetchPageOk \/ FetchPageNotOk \/ FetchPageThrows \/ DeadlineElapses \/ Catch
    \/ RssAtom \/ ArticleAnchors \/ JsonLd \/ OpenGraph \/ Heuristic \/ RespondPosts
    \/ CollectScripts \/ StartBatch \/ SettleFetch \/ FetchBatchV4 \/ ApplyPatternsV4
    \/ LaunchBrowser \/ LaunchThrows \/ OnRequest \/ OnResponse \/ OnWebsocket
    \/ GotoThrows \/ EvaluateThrows
    \/ CaptureDoneV4 \/ EvaluateScriptUrls \/ FetchBatchV5 \/ SpecialFilesV5
    \/ CloseAndCombine \/ RespondResources
    \/ SitemapBlock \/ RobotsBlock \/ HiddenExtras \/ ScriptsBlock \/ RespondCalls

Spec == Init /\ [][Next]_vars

\* ------------------------------------------------------- two requests at once
\* Two invocations of the handler on one Node process. The variables above
\* are the bindings of the invocation that runs; peer holds the bindings of
\* the one that waits at an await. Every binding of the handler (results,
\* jsCodes, networkRequests, browser, ..) is declared inside
\* module.exports = async (req, res) => { .. }, so each invocation has its own.
Closure ==
    [id |-> 3 - peer.id,
     rev |-> rev, mode |-> mode, page |-> page, request |-> request,
     pc |-> pc, attempt |-> attempt, err |-> err, timer |-> timer,
     results |-> results, jsCodes |-> jsCodes, jsUrls |-> jsUrls, batch |-> batch,
     inflight |-> inflight, staticCalls |-> staticCalls, networkRequests |-> networkRequests, pending |-> pending,
     browser |-> browser, sessions |-> sessions, response |-> response]

\* A handler whose registry is one Map of the module, shared by the
\* invocations: the switch leaves results where it is.
YieldSharedRegistry ==
    /\ peer.id # 0
    /\ pc \in { "entry", "fetch", "launch", "goto", "fetching", "close", "done", "rejected" }
    /\ peer' = Closure
    /\ loop' = loop
    /\ rev' = peer.rev
    /\ mode' = peer.mode
    /\ page' = peer.page
    /\ request' = peer.request
    /\ pc' = peer.pc
    /\ attempt' = peer.attempt
    /\ err' = peer.err
    /\ timer' = peer.timer
    /\ results' = results
    /\ jsCodes' = peer.jsCodes
    /\ jsUrls' = peer.jsUrls
    /\ batch' = peer.batch
    /\ inflight' = peer.inflight
    /\ staticCalls' = peer.staticCalls
    /\ networkRequests' = peer.networkRequests
    /\ pending' = peer.pending
    /\ browser' = peer.browser
    /\ sessions' = peer.sessions
    /\ response' = peer.response

\* The event loop leaves the running invocation at an await (or before its
\* first statement, or after its last) and resumes the other one.
Yield ==
    /\ peer.id # 0
    /\ pc \in { "entry", "fetch", "launch", "goto", "fetching", "close", "done", "rejected" }
    /\ peer' = Closure
    /\ loop' = loop
    /\ rev' = peer.rev
    /\ mode' = peer.mode
    /\ page' = peer.page
    /\ request' = peer.request
    /\ pc' = peer.pc
    /\ attempt' = peer.attempt
    /\ err' = peer.err
    /\ timer' = peer.timer
    /\ results' = peer.results
    /\ jsCodes' = peer.jsCodes
    /\ jsUrls' = peer.jsUrls
    /\ batch' = peer.batch
    /\ inflight' = peer.inflight
    /\ staticCalls' = peer.staticCalls
    /\ networkRequests' = peer.networkRequests
    /\ pending' = peer.pending
    /\ browser' = peer.browser
    /\ sessions' = peer.sessions
    /\ response' = peer.response

\* The first request, and the second one that arrives while it is served:
\* a posts and a hidden scan of one revision each, on pages of their own.
InitPair ==
    LET PairPages ==
            << Page(<<[href |-> <<"/","f","e","e","d">>, title |-> <<>>]>>,
                    <<Anchor(<<"/","p","/","1">>, <<"R","e","a","d"," ","m","o","r","e"," ","h","e","r","e">>, FALSE, FALSE)>>,
                    <<>>, NoOpenGraph, <<>>, <<>>, <<>>, NoSpecial),
               Page(<<>>, <<Anchor(<<"/","p","/","1">>, <<"A"," ","p","o","s","t"," ","t","i","t","l","e">>, TRUE, FALSE)>>,
                    <<>>, [ogUrl |-> <<"/","f","e","e","d">>, ogTitle |-> <<"F","e","e","d">>],
                    <<>>, <<>>, <<>>, NoSpecial),
               Page(<<>>, <<>>, <<>>, NoOpenGraph, <<>>, <<ExternalScript(<<OpenInternal>>)>>,
                    <<Request(<<"h","t","t","p","s",":","/","/","e","x",".","c","o","m","/","a","p","i","/","v","1","/","i","t","e","m","s">>, POST, "XHR", "xmlhttprequest")>>,
                    NoSpecial),
               Page(<<>>, <<>>, <<>>, NoOpenGraph, <<<<FetchUsersPost>>>>, <<FailedScript>>,
                    <<Request(<<"h","t","t","p","s",":","/","/","e","x",".","c","o","m","/","l","o","g","o",".","p","n","g">>, GET, "Image", "img"),
                      [kind |-> "socket", url |-> <<"w","s","s",":","/","/","e","x",".","c","o","m","/","p","u","s","h">>,
                       method |-> <<>>, resourceType |-> "WebSocket", initiatorType |-> "other"]>>,
                    NoSpecial) >>
    IN
        /\ \E k \in {1, 3} :
              /\ rev = (IF k = 1 THEN "v5" ELSE "v4")
              /\ mode = (IF k = 1 THEN "posts" ELSE "hidden")
              /\ page = PairPages[k]
        /\ request = [method |-> POST, hasBody |-> TRUE, hasUrl |-> TRUE, url |-> <<"e","x",".","c","o","m">>]
        /\ pc = "entry"
        /\ attempt = 1
        /\ err = "none"
        /\ timer = "none"
        /\ results = <<>>
        /\ jsCodes = <<>>
        /\ jsUrls = <<>>
        /\ batch = 0
        /\ inflight = {}
        /\ staticCalls = <<>>
        /\ networkRequests = <<>>
        /\ pending = <<>>
        /\ browser = "none"
        /\ sessions = 0
        /\ response = [status |-> "none", items |-> <<>>]
        /\ \E k \in {2, 4} :
              peer = [id |-> 2, rev |-> (IF k = 2 THEN "v4" ELSE "v5"), mode |-> (IF k = 2 THEN "posts" ELSE "hidden"),
                      page |-> PairPages[k],
                      request |-> [method |-> POST, hasBody |-> TRUE, hasUrl |-> TRUE, url |-> <<"e","x",".","c","o","m">>],
                      pc |-> "entry", attempt |-> 1, err |-> "none", timer |-> "none",
                      results |-> <<>>, jsCodes |-> <<>>, jsUrls |-> <<>>, batch |-> 0,
                      inflight |-> {}, staticCalls |-> <<>>, networkRequests |-> <<>>,
                      pending |-> <<>>, browser |-> "none", sessions |-> 0,
                      response |-> [status |-> "none", items |-> <<>>]]
        /\ loop = [at |-> "none"]

SpecPair == InitPair /\ [][Next \/ Yield]_vars

\* ---------------------------------------------------- the while-exec loop
\* One loop while ((match = regex.exec(code)) !== null) { .. } over one
\* source, at the grain of its iterations. A source is seen through the
\* signature that scans it: its length, for every index the end of the match
\* that starts there (0 when none starts there; a match is never empty, every
\* signature holds literal characters), and the starts whose endpoint
\* new URL(endpoint, baseUrl) rejects. Indexes are those of JavaScript, from 0.
MaxSource == 3

\* A regular expression without the g flag: exec starts at index 0 whatever
\* lastIndex is.
RegexExecFromStart(src, lastIndex) ==
    IF \E i \in 0..(src.length - 1) : src.end[i] > 0
    THEN LET first == CHOOSE i \in 0..(src.length - 1) :
                         src.end[i] > 0 /\ \A j \in 0..(i - 1) : src.end[j] = 0
         IN  [index |-> first, lastIndex |-> src.end[first]]
    ELSE [index |-> -1, lastIndex |-> 0]

\* regex.exec(code) of a regular expression with the g flag: the leftmost
\* match that starts at or after lastIndex, with lastIndex then at its end;
\* null (index -1), with lastIndex back at 0, when there is none.
RegexExec(src, lastIndex) ==
    IF \E i \in lastIndex..(src.length - 1) : src.end[i] > 0
    THEN LET first == CHOOSE i \in lastIndex..(src.length - 1) :
                         src.end[i] > 0 /\ \A j \in lastIndex..(i - 1) : src.end[j] = 0
         IN  [index |-> first, lastIndex |-> src.end[first]]
    ELSE [index |-> -1, lastIndex |-> 0]

\* One evaluation of the loop condition and, when there is a match, of the
\* body. v4 and the loop of v5 over the beautified text end the body with
\* regex.lastIndex = match.index + 1; the loop of v5 over the raw text has
\* that statement inside the try, after new URL, so a rejected endpoint
\* leaves lastIndex where exec put it.
ScanIteration ==
    /\ loop.at = "scanning"
    /\ LET match == RegexExec(loop.source, loop.lastIndex)
       IN  loop' = IF match.index = -1
                   THEN [loop EXCEPT !.at = "ended", !.lastIndex = 0]
                   ELSE [loop EXCEPT
                            !.index = match.index,
                            !.count = @ + 1,
                            !.lastIndex = IF loop.body = "v5-raw" /\ match.index \in loop.source.throws
                                          THEN match.lastIndex
                                          ELSE match.index + 1]
    /\ UNCHANGED <<rev, mode, page, request, peer, pc, timer, attempt, err, results, scan,
                   capture, response>>

InitScan ==
    /\ rev = "v5" /\ mode = "hidden"
    /\ page = Page(<<>>, <<>>, <<>>, NoOpenGraph, <<>>, <<>>, <<>>, NoSpecial)
    /\ request = [method |-> POST, hasBody |-> TRUE, hasUrl |-> TRUE, url |-> <<"e","x",".","c","o","m">>]
    /\ pc = "scan"
    /\ attempt = 1
    /\ err = "none"
    /\ timer = "armed"
    /\ results = <<>>
    /\ jsCodes = <<>>
    /\ jsUrls = <<>>
    /\ batch = 0
    /\ inflight = {}
    /\ staticCalls = <<>>
    /\ networkRequests = <<>>
    /\ pending = <<>>
    /\ browser = "none"
    /\ sessions = 0
    /\ response = [status |-> "none", items |-> <<>>]
    /\ peer = [id |-> 0]
    /\ LET Sources ==
               UNION { UNION { { [length |-> n, end |-> e, throws |-> t] :
                                   t \in SUBSET { i \in 0..(n - 1) : e[i] > 0 } } :
                               e \in { f \in [0..(n - 1) -> 0..n] :
                                          \A i \in 0..(n - 1) : f[i] = 0 \/ f[i] > i } } :
                       n \in 1..MaxSource }
       IN  \E src \in Sources, body \in { "v4", "v5-raw", "v5-beautified" } :
               loop = [at |-> "scanning", body |-> body, source |-> src,
                       lastIndex |-> 0, index |-> -1, count |-> 0]

SpecScan == InitScan /\ [][ScanIteration]_vars

\* ------------------------------------------------- the script corpus builder
\* The builder alone, at the grain of single fetches, in the revisions that
\* have one: v4 and v5 above, and v2 (unnamed/part_001), which starts the
\* fetch of every script at once.

\* v2: inline scripts of more than 10 characters, and the script[src] URLs
\* as v4 collects them.
CollectScriptsV2 ==
    /\ pc = "collect" /\ rev = "v2"
    /\ jsCodes' = SelectSeq(page.inlineScripts, LAMBDA code : TextLength(code) > 10)
    /\ jsUrls' = ScriptUrlsV4(page.scripts, BaseUrl)
    /\ batch' = 0
    /\ pc' = "batch"
    /\ UNCHANGED <<input, timer, attempt, err, results, inflight, staticCalls, capture, response>>

\* v2: jsUrls.map(async (jsUrl, index) => ..): one promise per script, every
\* fetch started at once.
StartAllV2 ==
    /\ pc = "batch" /\ rev = "v2"
    /\ inflight' = 1..Len(jsUrls)
    /\ pc' = "fetching"
    /\ UNCHANGED <<input, timer, attempt, err, results, jsCodes, jsUrls, batch, staticCalls,
                   capture, response>>

\* v2: await Promise.all(fetchPromises); the bodies that are not blank join
\* jsCodes.
FetchAllV2 ==
    /\ pc = "fetching" /\ rev = "v2"
    /\ inflight = {}
    /\ jsCodes' = jsCodes
          \o SelectSeq([k \in 1..Len(jsUrls) |-> IF jsUrls[k].ok THEN jsUrls[k].code ELSE <<>>],
                       IsNonBlank)
    /\ batch' = Len(jsUrls)
    /\ pc' = "built"
    /\ UNCHANGED <<input, timer, attempt, err, results, jsUrls, inflight, staticCalls, capture,
                   response>>

\* The builder starts where the page is at hand: after the page fetch (v2,
\* v4), after the rendered page went idle (v5).
InitBuilder ==
    /\ rev \in Revisions \cup { "v2" }
    /\ mode = "all-endpoints"
    /\ page \in ScriptPages
    /\ request \in { r \in Requests : r.method = POST /\ normalizeUrl(r.hasUrl, r.url) # Invalid }
    /\ pc = IF rev = "v5" THEN "goto" ELSE "collect"
    /\ attempt = 1
    /\ err = "none"
    /\ timer = "armed"
    /\ results = <<>>
    /\ jsCodes = <<>>
    /\ jsUrls = <<>>
    /\ batch = 0
    /\ inflight = {}
    /\ staticCalls = <<>>
    /\ networkRequests = <<>>
    /\ pending = <<>>
    /\ browser = IF rev = "v5" THEN "open" ELSE "none"
    /\ sessions = IF rev = "v5" THEN 1 ELSE 0
    /\ response = [status |-> "none", items |-> <<>>]
    /\ peer = [id |-> 0]
    /\ loop = [at |-> "none"]

NextBuilder ==
    \/ CollectScripts \/ CollectScriptsV2 \/ EvaluateScriptUrls
    \/ StartBatch \/ StartAllV2 \/ SettleFetch
    \/ FetchBatchV4 \/ FetchBatchV5 \/ FetchAllV2

SpecBuilder == InitBuilder /\ [][NextBuilder]_vars

\* ------------------------------------------------- one resource of the capture
\* fullNetworkScan over a page whose traffic is one response (or one socket):
\* classifyResource labels it when the response arrives, calculateScore
\* scores it when the scan is ranked. The resource type, the method and the
\* URL of the response are drawn apart; the three special files answer.
InitResource ==
    LET urls == { <<"h","t","t","p","s",":","/","/","e","x",".","c","o","m","/","a","p","i","/","v","1","/","i","t","e","m","s">>,
                 <<"h","t","t","p","s",":","/","/","e","x",".","c","o","m","/","a","p","i","/","d","a","t","a",".","j","s","o","n">>,
                 <<"h","t","t","p","s",":","/","/","a","p","i",".","e","x",".","c","o","m","/","u","s","e","r","s">>,
                 <<"h","t","t","p","s",":","/","/","e","x",".","c","o","m","/","g","r","a","p","h","q","l">>,
                 <<"h","t","t","p","s",":","/","/","e","x",".","c","o","m","/","l","o","g","o",".","p","n","g">>,
                 <<"h","t","t","p","s",":","/","/","e","x",".","c","o","m","/","a","p","p",".","w","a","s","m">>,
                 <<"h","t","t","p","s",":","/","/","e","x",".","c","o","m","/","a","p","i","/","s","i","t","e","m","a","p",".","x","m","l">>,
                 <<"h","t","t","p","s",":","/","/","e","x",".","c","o","m","/","r","o","b","o","t","s",".","t","x","t">>,
                 <<"h","t","t","p","s",":","/","/","e","x",".","c","o","m","/","m","a","n","i","f","e","s","t",".","j","s","o","n">>,
                 <<"h","t","t","p","s",":","/","/","e","x",".","c","o","m","/","h","o","m","e">> }
        types == { "XHR", "Fetch", "Document", "Stylesheet", "Script", "Image", "Media",
                   "Font", "WebSocket", "Other" }
        methods == { GET, POST, <<"P","U","T">>, <<"D","E","L","E","T","E">>, OPTIONS }
        events == { Request(u, m, t, "other") : u \in urls, m \in methods, t \in types }
                  \cup { [kind |-> "socket", url |-> <<"w","s","s",":","/","/","e","x",".","c","o","m","/","p","u","s","h">>,
                          method |-> <<>>, resourceType |-> "WebSocket", initiatorType |-> "other"] }
    IN  /\ rev = "v5"
        /\ mode = "full"
        /\ page \in { Page(<<>>, <<>>, <<>>, NoOpenGraph, <<>>, <<>>, <<ev>>,
                           [sitemapOk |-> TRUE, robotsOk |-> TRUE, manifestOk |-> TRUE,
                            locs |-> <<>>, lines |-> <<>>]) : ev \in events }
        /\ request \in { r \in Requests : r.method = POST /\ normalizeUrl(r.hasUrl, r.url) # Invalid }
        /\ pc = "launch"
        /\ attempt = 1
        /\ err = "none"
        /\ timer = "armed"
        /\ results = <<>>
        /\ jsCodes = <<>>
        /\ jsUrls = <<>>
        /\ batch = 0
        /\ inflight = {}
        /\ staticCalls = <<>>
        /\ networkRequests = <<>>
        /\ pending = <<>>
        /\ browser = "none"
        /\ sessions = 0
        /\ response = [status |-> "none", items |-> <<>>]
        /\ peer = [id |-> 0]
        /\ loop = [at |-> "none"]

SpecResource ==
    InitResource
    /\ [][LaunchBrowser \/ OnResponse \/ OnWebsocket \/ EvaluateScriptUrls \/ SpecialFilesV5
          \/ CloseAndCombine \/ RespondResources]_vars

\* ----------------------------------------------------------------- claims

\* res.json(data): the request was answered with the items of the scan.
Succeeded == pc = "done" /\ response.status = "200"

\* C1: a successful response never holds more items than the cap of its
\* mode family: at most 200 under mode posts, at most 150 under every
\* network-call mode.
C1_OutputWithinCap ==
    Succeeded =>
        Len(response.items) <= (IF mode = "posts" THEN PostsCap ELSE NetworkCap)

C3_HighestScoreKept ==
    LET detected ==
            Range(DetectFeed(<<>>, page.feedLinks, 1, BaseUrl))
              \cup Range(DetectArticle(<<>>, page.anchors, BaseUrl))
              \cup Range(DetectJsonLd(<<>>, page.jsonld, 1, BaseUrl))
              \cup Range(DetectOpenGraph(<<>>, page.ogUrl, page.ogTitle, BaseUrl))
              \cup Range(DetectHeuristic(<<>>, page.anchors, BaseUrl).results)
    IN  Succeeded /\ mode = "posts" =>
            \A i \in 1..Len(response.items) : \A d \in detected :
                d.href = response.items[i].href => d.score <= response.items[i].score

\* C4: every emitted item carries a score, and the score lies in [0,1]
\* (0..100 hundredths), also when the category, URL-shape and
\* mutating-method boosts of calculateScore all apply.
C4_ScoreInUnitInterval ==
    Succeeded =>
        \A i \in 1..Len(response.items) :
            /\ "score" \in DOMAIN response.items[i]
            /\ response.items[i].score \in 0..100

\* C4, its case: a response of v5 holds a Hidden APIs resource of a POST to
\* an /api/ URL, on which every boost applies, and its score is 1.0.
C4_AllBoostsEmitted ==
    /\ Succeeded /\ rev = "v5" /\ mode # "posts"
    /\ \E i \in 1..Len(response.items) :
          /\ response.items[i].category = "Hidden APIs"
          /\ Includes(response.items[i].url, <<"/","a","p","i","/">>)
          /\ response.items[i].method = POST
          /\ response.items[i].score = 100

\* C5: every emitted item carries a parseable absolute URL; an endpoint
\* that is malformed or does not parse is never emitted.
C5_UrlsAbsolute ==
    Succeeded =>
        \A i \in 1..Len(response.items) : IsAbsoluteUrl(IF "href" \in DOMAIN response.items[i]
                          THEN response.items[i].href ELSE response.items[i].url)

\* C6: under mode post every emitted item has method POST.
C6_PostModeOnlyPost ==
    Succeeded /\ mode = "post" =>
        \A i \in 1..Len(response.items) : response.items[i].method = POST

\* C7: the inline script fetch("/api/users", {method:"POST"}) yields an item
\* with url https://ex.com/api/users and method POST under the modes post and
\* all-endpoints, and no item for that URL under mode xhr.
C7_ScenarioC ==
    Succeeded /\ page.inlineScripts = << <<FetchUsersPost>> >> =>
        /\ mode \in {"post", "all-endpoints"} =>
              \E i \in 1..Len(response.items) :
                  /\ response.items[i].url = <<"h","t","t","p","s",":","/","/","e","x",".","c","o","m","/","a","p","i","/","u","s","e","r","s">>
                  /\ response.items[i].method = POST
        /\ mode = "xhr" =>
              \A i \in 1..Len(response.items) :
                  response.items[i].url # <<"h","t","t","p","s",":","/","/","e","x",".","c","o","m","/","a","p","i","/","u","s","e","r","s">>

\* C8: a script holding open("GET","/internal/v2/data"), scanned under mode
\* hidden, yields an emitted item for https://ex.com/internal/v2/data whose
\* category, where items carry one, is Hidden APIs and whose score is above
\* the score of an ordinary static match (0.7).
C8_ScenarioD ==
    Succeeded /\ mode = "hidden"
      /\ (\E k \in 1..Len(page.scripts) : page.scripts[k].ok /\ page.scripts[k].code = <<OpenInternal>>) =>
        \E i \in 1..Len(response.items) :
            /\ response.items[i].url = <<"h","t","t","p","s",":","/","/","e","x",".","c","o","m","/","i","n","t","e","r","n","a","l","/","v","2","/","d","a","t","a">>
            /\ "category" \in DOMAIN response.items[i] => response.items[i].category = "Hidden APIs"
            /\ response.items[i].score > 70

\* C9: under the modes all-endpoints, all and full nothing is filtered:
\* every signature is active (v4) and every resource the scan gathered
\* reaches the ranker, so the response holds all of them up to the cap (v5).
C9_UmbrellaKeepsAll ==
    Succeeded /\ mode \in {"all-endpoints", "all", "full"} =>
        /\ rev = "v4" => getPatternsForMode(mode) = BasePatterns
        /\ rev = "v5" => Len(response.items) = Min(Len(results), ResultsCapV5)

\* C10: under mode ws every emitted item has a ws or wss URL, and the ws://
\* or wss:// literal of a fetched script is emitted.
C10_WsModeOnlySockets ==
    Succeeded /\ mode = "ws" =>
        /\ \A i \in 1..Len(response.items) :
              \/ StartsWith(response.items[i].url, <<"w","s",":","/","/">>)
              \/ StartsWith(response.items[i].url, <<"w","s","s",":","/","/">>)
        /\ (\E k \in 1..Len(page.scripts) :
                /\ page.scripts[k].ok
                /\ \E t \in 1..Len(page.scripts[k].code) : page.scripts[k].code[t] = WsLiteral)
              => \E i \in 1..Len(response.items) : response.items[i].url = WsLiteral.text

\* C11: when the request is over, every browser session launchBrowser opened
\* has been closed, whatever step of the capture threw.
C11_SessionsClosed == pc \in {"done", "rejected"} => sessions = 0

\* C12: no request makes more than 3 attempts; a page fetch that rejects with
\* a network error before the last attempt is followed by the next attempt;
\* and a 502 response is sent on the last attempt only and carries the status
\* of that attempt's page fetch.
C12_RetriesThenGivesUp ==
    [][ /\ attempt' <= MaxAttempts
        /\ (pc = "threw" /\ err = "FetchError" /\ attempt < MaxAttempts) =>
              (attempt' = attempt + 1 /\ pc' = StartOf(rev, mode))
        /\ (response'.status = "502") =>
              (attempt' = MaxAttempts /\ response'.upstream \in { "404", "503" }) ]_vars

\* C13: a request whose deadline elapsed while one of its operations was in
\* flight ends with the timeout response 408, never with another response.
C13_DeadlineEndsRequest == (pc = "done" /\ timer = "fired") => response.status = "408"

\* C14: the AbortError of the deadline is not retried: the step that catches
\* it ends the request with status 408.
C14_TimeoutTerminal ==
    [][ (pc = "threw" /\ err = "AbortError") =>
            (pc' = "done" /\ response'.status = "408") ]_vars

\* C15: a request that is no POST ends with 405, a POST without a usable url
\* ends with 400, and neither fetches the page, fetches a script, launches a
\* browser or makes a second attempt.
C15_InvalidInputTerminal ==
    (request.method # POST \/ normalizeUrl(request.hasUrl, request.url) = Invalid) =>
        /\ pc \in {"entry", "done"}
        /\ pc = "done" => response.status = (IF request.method # POST THEN "405" ELSE "400")
        /\ attempt = 1 /\ sessions = 0 /\ jsUrls = <<>> /\ inflight = {}

\* C16: the steps that work on one candidate or one source (the five
\* detectors, the script fetches, the special-file fetches) never throw into
\* the catch of attemptScan: what cannot be used is skipped.
C16_LocalErrorsSkipped ==
    [][ (pc \in {"feed", "article", "jsonld", "opengraph", "heuristic",
                 "fetching", "sitemap", "robots", "scripts"}) => (pc' # "threw") ]_vars

\* C17: the builder never throws, and after every batch the corpus holds the
\* body of each script fetched so far whose fetch succeeded, in order, a
\* failed fetch contributing nothing: jsCodes holds them after the inline
\* scripts (v4), staticCalls holds the calls scanned from them (v5).
C17_FailuresIsolated ==
    [][ /\ (pc \in {"batch", "fetching"}) => (pc' # "threw")
        /\ jsUrls' # <<>> =>
              LET fetched == Min(batch', Len(jsUrls'))
                  bodies  == [k \in 1..fetched |->
                                 IF jsUrls'[k].ok THEN jsUrls'[k].code ELSE <<>>]
              IN  /\ rev = "v4" =>
                        jsCodes' = SelectSeq(page.inlineScripts, IsNonBlank)
                                     \o SelectSeq(bodies, IsNonBlank)
                  /\ rev = "v5" =>
                        staticCalls' = ScanBatch(<<>>, bodies, 1, BaseUrl, mode) ]_vars

\* C17, its case: the builder of v4 is through with a page of more scripts
\* than one batch holds, two of whose fetches failed, one of them in the
\* first batch, and the corpus holds the bodies of all the others.
C17_LaterBatchesScanned ==
    /\ rev = "v4" /\ pc = "batch"
    /\ Len(jsUrls) > Concurrency /\ batch >= Len(jsUrls)
    /\ ~jsUrls[2].ok /\ ~jsUrls[5].ok
    /\ Len(jsCodes) = Len(jsUrls) - 2
    /\ jsCodes[Len(jsCodes)] = jsUrls[Len(jsUrls)].code

\* C18: at most 10 scripts are fetched in a scan, at most 3 fetches are in
\* flight at a time, and between two batches no fetch is in flight.
C18_BoundedBurst ==
    /\ Len(jsUrls) <= MaxScripts
    /\ Cardinality(inflight) <= Concurrency
    /\ pc = "batch" => inflight = {}

\* C19: a request whose last failure was the launch of the browser or the
\* navigation of the page still ends with a success response.
C19_CaptureFailureDegrades ==
    (pc \in {"done", "rejected"} /\ err \in {"LaunchError", "TimeoutError"}) => Succeeded

\* C20: the emitted items are in non-increasing order of score, and every
\* candidate that was discovered (for v4 the whole dynamic stream, before
\* its cut to 50) and passed the mode filter, but is not emitted, has a score
\* no higher than any emitted item.
C20_SortedAndBestKept ==
    Succeeded =>
        LET items == response.items
            stream == [k \in 1..Len(networkRequests) |-> networkRequests[k]]
                        \o [k \in 1..Len(page.traffic) |->
                               [url |-> page.traffic[k].url,
                                method |-> <<"D","Y","N","A","M","I","C">>, score |-> 85]]
            dynamic == { stream[k] : k \in { j \in 1..Len(stream) :
                            \/ j <= Len(networkRequests)
                            \/ /\ page.traffic[j - Len(networkRequests)].kind = "http"
                               /\ page.traffic[j - Len(networkRequests)].initiatorType
                                    \in {"fetch", "xmlhttprequest"} } }
            passed == SelectSeq(results, LAMBDA r : ModeFilter(mode, r))
            candidates ==
                IF mode = "posts" \/ rev = "v4"
                THEN { results[k] : k \in 1..Len(results) }
                       \cup (IF rev = "v4" /\ mode \in {"hidden", "graphql", "ws"}
                             THEN dynamic ELSE {})
                ELSE { ("score" :> calculateScore(passed[k])) @@ passed[k] : k \in 1..Len(passed) }
        IN  /\ \A i \in 1..(Len(items) - 1) : items[i].score >= items[i + 1].score
            /\ \A c \in candidates :
                  \/ \E i \in 1..Len(items) : items[i] = c
                  \/ \A i \in 1..Len(items) : items[i].score >= c.score

\* C21: when a JSON-LD object of an article-like type with a URL and a title
\* and an anchor the heuristic detector matches resolve to the same URL, the
\* response of extractPosts holds exactly one item for that URL, and it is
\* the json-ld entry with score 1.0.
C21_ScenarioB ==
    Succeeded /\ mode = "posts" =>
        LET structured == Range(DetectJsonLd(<<>>, page.jsonld, 1, BaseUrl))
            heuristic == Range(DetectHeuristic(<<>>, page.anchors, BaseUrl).results)
            items == response.items
        IN  \A d \in structured :
                (\E h \in heuristic : h.href = d.href) =>
                    /\ Cardinality({ i \in 1..Len(items) : items[i].href = d.href }) = 1
                    /\ \A i \in 1..Len(items) :
                          items[i].href = d.href =>
                              items[i].source = "json-ld" /\ items[i].score = JsonLdScore

C24_MethodNeverUrl ==
    Succeeded /\ mode # "posts" =>
        LET codes == { page.inlineScripts[k] : k \in 1..Len(page.inlineScripts) }
                       \cup { page.scripts[k].code : k \in 1..Len(page.scripts) }
        IN  \A i \in 1..Len(response.items) :
                \A code \in codes : \A k \in 1..Len(code) :
                    code[k].url # <<>> => response.items[i].method # ToUpperCase(code[k].url)

\* C25: every iteration of a while-exec loop that finds a match finds it
\* strictly after the start of the previous one and leaves lastIndex past its
\* start, also when the endpoint is rejected, so a loop makes at most as
\* many iterations as its source has characters.
C25_ScanAdvances ==
    [][ (loop'.count # loop.count) =>
            /\ loop'.index > loop.index
            /\ loop'.lastIndex > loop'.index
            /\ loop'.count <= loop.source.length ]_vars

\* A loop of v5 over raw text that has ended after a match at every index of
\* its source, with matches that overlap and endpoints that new URL rejects.
C25_DenseSourceScanned ==
    /\ loop.at = "ended" /\ loop.body = "v5-raw"
    /\ loop.count = loop.source.length /\ loop.count = MaxSource
    /\ loop.source.throws # {}
    /\ \E i \in 0..(loop.source.length - 1) : loop.source.end[i] > i + 1

\* C26: calculateScore gives a candidate of category Sitemap, Robots.txt or
\* Manifest exactly 0.9 whatever its URL and method; every other candidate
\* gets the base 0.5 plus 0.3 for an XHR, Fetch or Hidden APIs category, 0.2
\* for an API-shaped URL and 0.1 for a mutating method, capped at 1.0; and
\* a candidate sent with GET never scores higher than the same candidate
\* sent with POST, PUT or DELETE. Scores are in hundredths.
C26_ScoreTable ==
    Succeeded =>
        \A i \in 1..Len(response.items) :
            LET it       == response.items[i]
                mutating == { POST, <<"P","U","T">>, <<"D","E","L","E","T","E">> }
                category == IF it.category \in {"XHR", "Fetch", "Hidden APIs"} THEN 30 ELSE 0
                shape    == IF \/ Includes(it.url, <<"/","a","p","i","/">>)
                               \/ Includes(it.url, <<"/","v">>)
                               \/ Includes(it.url, <<"/","g","r","a","p","h","q","l">>)
                            THEN 20 ELSE 0
                verb     == IF it.method \in mutating THEN 10 ELSE 0
                sum      == 50 + category + shape + verb
            IN  /\ it.category \in {"Sitemap", "Robots.txt", "Manifest"} => it.score = 90
                /\ it.category \notin {"Sitemap", "Robots.txt", "Manifest"}
                      => it.score = IF sum > 100 THEN 100 ELSE sum
                /\ it.method = GET
                      => \A m \in mutating : calculateScore([it EXCEPT !.method = m]) >= it.score

\* A response that holds a captured resource of a special-file category with
\* an API-shaped URL and a mutating method, beside a capped one or not.
C26_SpecialFileWithBoosts ==
    /\ Succeeded
    /\ \E i \in 1..Len(response.items) :
          /\ response.items[i].category = "Sitemap"
          /\ response.items[i].source = "dynamic"
          /\ Includes(response.items[i].url, <<"/","a","p","i","/">>)
          /\ response.items[i].method = POST
          /\ response.items[i].score = 90

\* C27: a captured response is labelled 'Hidden APIs' exactly when its
\* resource type is XHR or Fetch, its method is not OPTIONS, the path of its
\* URL holds "api" (any case) and its URL does not end in a static-asset
\* extension; every other XHR or Fetch response is labelled with its resource
\* type; and the label is always one of the sixteen categories.
C27_HiddenApisExactly ==
    \A i \in 1..Len(results) :
        LET r      == results[i]
            path   == SubSeq(r.url, Len(OriginOf(r.url)) + 1, Len(r.url))
            static == { <<".","c","s","s">>, <<".","j","s">>, <<".","p","n","g">>, <<".","j","p","g">>,
                        <<".","g","i","f">>, <<".","w","o","f","f">>, <<".","t","t","f">>,
                        <<".","m","p","4">>, <<".","m","p","3">>, <<".","w","a","s","m">>,
                        <<".","x","m","l">>, <<".","t","x","t">>, <<".","j","s","o","n">> }
            hidden == /\ r.type \in {"XHR", "Fetch"}
                      /\ r.method # OPTIONS
                      /\ Includes(ToLowerCase(path), <<"a","p","i">>)
                      /\ \A ext \in static : ~EndsWith(ToLowerCase(r.url), ext)
        IN  (r.source = "dynamic" /\ r.method # WS) =>
                /\ r.category = "Hidden APIs" <=> hidden
                /\ (r.type \in {"XHR", "Fetch"} /\ ~hidden) => r.category = r.type
                /\ r.category \in { "Options", "Hidden APIs", "XHR", "Fetch", "Doc", "CSS",
                                    "JS/Scripts", "Img", "Media", "Font", "Socket", "Wasm",
                                    "Sitemap", "Robots.txt", "Manifest", "Other" }

\* C28: a request that carries a body and whose handler has ended was
\* answered by one call of res.json: no path through attemptScan ends the
\* handler with its promise rejected and no response, and no response is
\* sent before the handler ends.
C28_EndsAnswered ==
    request.hasBody =>
        /\ pc \in {"done", "rejected"} => response.status # "none"
        /\ pc # "done" => response.status = "none"

\* C29: within one request at most one browser session is open at any time,
\* across the attempts of attemptScan as well: an attempt launches a browser
\* only when the browser of the attempt before it has been closed.
C29_OneSessionAtATime == sessions <= 1

\* C30: the page fetch is issued again only when the page fetch itself has
\* failed: a request whose extraction stage has thrown (the heuristic
\* detector's TypeError, or an error of the browser launch, the navigation
\* or page.evaluate, all of which follow a successful page fetch) is never
\* at the page fetch again.
C30_NoFetchAfterExtractionThrew ==
    pc = "fetch" => err \in { "none", "FetchError", "AbortError" }
====
